---- MODULE Spec2Model ----
(***************************************************************************)
(* Reminder engine of the horse-manager backend (src/server.py): the       *)
(* expense-triggered reminder suggestion, completion with rescheduling,    *)
(* manual reminder create/update/delete and competition reminders, over    *)
(* the reminders collection of the document store.                         *)
(*                                                                         *)
(* Representation.  A date string "%Y-%m-%d" is the tuple <<y, m, d>>; a   *)
(* datetime at midnight is its day number (strptime parses a tuple to a    *)
(* day number and rejects what is no calendar date, strftime formats a day *)
(* number).  An absent or null date is <<>>.  An Optional[int] is <<>>     *)
(* (None) or <<n>>.  An Optional[str] is NoneStr or the string.  Titles,   *)
(* descriptions, reminder_time, created_at and updated_at are left out,    *)
(* and an expense or competition document keeps its _id, its user_id and   *)
(* the entity it references: no query of the reminder engine reads more.   *)
(*                                                                         *)
(* The backup code (perform_automatic_backup, create_backup,               *)
(* restore_backup) reads and writes whole documents of any shape, so the   *)
(* specification of the backups holds the collections a second time, in    *)
(* store, as sequences of key/value documents; backups and backup_parts    *)
(* are the two backup collections and utc is datetime.utcnow().            *)
(*                                                                         *)
(* A handler awaits every database call and another handler may run at     *)
(* each await.  Spec, SpecCascade and SpecBackup serve one request at a    *)
(* time; SpecRace and SpecOverlap step the handlers call by call, procs    *)
(* being the handlers in flight, and SpecFailure lets a database call of   *)
(* the backup code raise.                                                  *)
(***************************************************************************)
EXTENDS Integers, Sequences, FiniteSets, TLC

VARIABLES horses, riders, expenses, reminders, competitions, now, nextId, nextExp,
          nextComp, requests, last, store, backups, backup_parts, utc, procs

vars == <<horses, riders, expenses, reminders, competitions, now, nextId, nextExp,
          nextComp, requests, last, store, backups, backup_parts, utc, procs>>

backupVars == <<store, backups, backup_parts, utc>>

apiVars == <<horses, riders, expenses, reminders, competitions, now, nextId, nextExp,
             nextComp>>

\* The collections both backup functions list in collections_to_backup.
collections_to_backup ==
    <<"users", "horses", "riders", "suppliers", "expenses", "rider_expenses",
      "competitions", "palmares", "reminders", "budgets", "horse_rider_associations">>

CollectionNames == {collections_to_backup[i] : i \in DOMAIN collections_to_backup}

\* No backup yet, and nothing in the store.
NoBackups ==
    /\ store = [c \in CollectionNames |-> <<>>]
    /\ backups = {}
    /\ backup_parts = {}
    /\ utc = 1

NoneStr == "none"
NoDate == <<>>
NoInt == <<>>

(***************************************************************************)
(* Calendar: datetime.strptime(s, "%Y-%m-%d"), strftime and timedelta.     *)
(***************************************************************************)
IsLeap(y) == (y % 4 = 0 /\ y % 100 # 0) \/ y % 400 = 0

DaysInMonth(y, m) ==
    IF m = 2 THEN (IF IsLeap(y) THEN 29 ELSE 28)
    ELSE IF m \in {4, 6, 9, 11} THEN 30 ELSE 31

\* strptime raises ValueError unless the string is a calendar date.
ParseOk(s) ==
    /\ Len(s) = 3
    /\ s[1] \in 1..9999
    /\ s[2] \in 1..12
    /\ s[3] \in 1..DaysInMonth(s[1], s[2])

\* Day number of a calendar date (days since 0000-03-01).
DayNumber(y, m, d) ==
    LET yy  == IF m <= 2 THEN y - 1 ELSE y
        mp  == IF m > 2 THEN m - 3 ELSE m + 9
        era == yy \div 400
        yoe == yy - era * 400
        doy == (153 * mp + 2) \div 5 + d - 1
        doe == yoe * 365 + yoe \div 4 - yoe \div 100 + doy
    IN  era * 146097 + doe

strptime(s) == DayNumber(s[1], s[2], s[3])

strftime(z) ==
    LET era == z \div 146097
        doe == z - era * 146097
        yoe == (doe - doe \div 1460 + doe \div 36524 - doe \div 146096) \div 365
        doy == doe - (365 * yoe + yoe \div 4 - yoe \div 100)
        mp  == (5 * doy + 2) \div 153
        d   == doy - (153 * mp + 2) \div 5 + 1
        m   == IF mp < 10 THEN mp + 3 ELSE mp - 9
        y   == yoe + era * 400 + (IF m <= 2 THEN 1 ELSE 0)
    IN  <<y, m, d>>

timedelta(days) == days

(***************************************************************************)
(* Category tables.                                                        *)
(***************************************************************************)
HORSE_EXPENSE_CATEGORIES ==
    {"pupilaje", "herrador", "veterinario", "dentista", "vacunas",
     "desparasitacion", "fisioterapia", "proveedores", "otros_propietarios",
     "alimentacion", "equipo", "transporte", "otros"}

RIDER_EXPENSE_CATEGORIES ==
    {"equipamiento", "formacion", "competiciones", "licencias", "seguros",
     "transporte", "alimentacion", "fisioterapia", "otros"}

DEFAULT_REMINDER_INTERVALS ==
    [c \in {"herrador", "veterinario", "dentista", "vacunas", "desparasitacion",
            "fisioterapia", "licencias", "seguros", "equipamiento", "pasaporte",
            "itv_remolque"} |->
        CASE c = "herrador" -> 45
          [] c = "vacunas" -> 180
          [] c = "desparasitacion" -> 90
          [] c = "fisioterapia" -> 30
          [] OTHER -> 365]

AUTO_REMINDER_CATEGORIES == DOMAIN DEFAULT_REMINDER_INTERVALS

FALLBACK_INTERVAL == 30
PRE_NOTICE_THRESHOLD == 30
PRE_NOTICE_DAYS == 7
RECURRING_DAYS == 30

IMPORTANT_CATEGORIES == {"veterinario", "vacunas", "licencias", "seguros"}

(***************************************************************************)
(* Document-store helpers.                                                 *)
(***************************************************************************)
\* bson ObjectId(s) raises InvalidId unless s is a 24-digit hex string.
MalformedId == "zz"
ObjectIdOk(s) == s \notin {MalformedId, NoneStr}

\* (variant: "is not None" in place of truthiness)
TruthyNotNone(opt) == opt # NoInt

\* Python truthiness of an Optional[int].
Truthy(opt) == opt # NoInt /\ opt[1] # 0

\* (variant: the lookup without the user_id filter)
FindAnyOwner(coll, id, user_id) == {e \in coll : e.id = id}

\* db.<collection>.find_one({"_id": ObjectId(id), "user_id": user_id})
FindOwned(coll, id, user_id) == {e \in coll : e.id = id /\ e.user_id = user_id}

EntityCollection(entity_type) == IF entity_type = "horse" THEN horses ELSE riders

\* get_entity_interval: [ok |-> FALSE] stands for the InvalidId it raises.
get_entity_interval(user_id, entity_type, entity_id, category) ==
    LET dflt == IF category \in DOMAIN DEFAULT_REMINDER_INTERVALS
                THEN DEFAULT_REMINDER_INTERVALS[category]
                ELSE FALLBACK_INTERVAL
    IN  IF entity_id # NoneStr
        THEN IF ~ObjectIdOk(entity_id)
             THEN [ok |-> FALSE, value |-> 0]
             ELSE LET found == FindOwned(EntityCollection(entity_type), entity_id, user_id)
                  IN  IF \E e \in found : category \in DOMAIN e.reminder_intervals
                      THEN LET e == CHOOSE e \in found : category \in DOMAIN e.reminder_intervals
                           IN  [ok |-> TRUE, value |-> e.reminder_intervals[category]]
                      ELSE [ok |-> TRUE, value |-> dflt]
        ELSE [ok |-> TRUE, value |-> dflt]

\* The fields every reminder document is read with (absent fields as None/False).
ReminderDoc(user_id, date, entity_type, entity_id, category, priority, interval_days) ==
    [id |-> 0,
     user_id |-> user_id,
     reminder_date |-> date,
     entity_type |-> entity_type,
     entity_id |-> entity_id,
     category |-> category,
     is_automatic |-> TRUE,
     is_completed |-> FALSE,
     completed_date |-> NoDate,
     priority |-> priority,
     interval_days |-> interval_days,
     is_preaviso |-> FALSE,
     parent_reminder_date |-> NoDate,
     competition_id |-> NoneStr,
     last_completed_date |-> NoDate,
     is_recurring_payment |-> FALSE]

\* (variant: the pre-notice is written without its parent date)
PreavisoDocUnlinked(user_id, next_date, entity_type, entity_id, category) ==
    [ReminderDoc(user_id, strftime(next_date - timedelta(PRE_NOTICE_DAYS)),
                 entity_type, entity_id, category, "info", NoInt)
        EXCEPT !.is_preaviso = TRUE]

\* The pre-notice document both the expense path and the reschedule path build.
PreavisoDoc(user_id, next_date, entity_type, entity_id, category) ==
    [ReminderDoc(user_id, strftime(next_date - timedelta(PRE_NOTICE_DAYS)),
                 entity_type, entity_id, category, "info", NoInt)
        EXCEPT !.is_preaviso = TRUE,
               !.parent_reminder_date = strftime(next_date)]

\* (variant: a pre-notice dated today is still due)
PreavisoDueToday(interval, next_date, clock) ==
    /\ interval > PRE_NOTICE_THRESHOLD
    /\ next_date - timedelta(PRE_NOTICE_DAYS) >= clock

\* The pre-notice step: interval > 30 and preaviso_date > datetime.now().
PreavisoDue(interval, next_date, clock) ==
    /\ interval > PRE_NOTICE_THRESHOLD
    /\ next_date - timedelta(PRE_NOTICE_DAYS) > clock

\* insert_one for each document of a sequence, with fresh ids from nid on.
RECURSIVE InsertAll(_, _, _)
InsertAll(rs, docs, nid) ==
    IF docs = <<>> THEN rs
    ELSE InsertAll(rs \cup {[Head(docs) EXCEPT !.id = nid]}, Tail(docs), nid + 1)

(***************************************************************************)
(* create_automatic_reminder_suggestion: the documents it inserts.         *)
(***************************************************************************)
\* (variant: every category spawns a reminder)
AllowListedAny(category) == TRUE

\* Only the categories of the default-interval table spawn reminders.
AllowListed(category) == category \in AUTO_REMINDER_CATEGORIES

\* (variant: the existence check finds nothing)
ExistingNone(rs, user_id, entity_type, entity_id, category, date) == {}

\* find_one: the automatic reminders with the same entity, category and date.
ExistingAutomatic(rs, user_id, entity_type, entity_id, category, date) ==
    {r \in rs : /\ r.user_id = user_id
                /\ r.entity_type = entity_type
                /\ r.entity_id = entity_id
                /\ r.category = category
                /\ r.reminder_date = date
                /\ r.is_automatic}

\* (variant: every suggestion gets "info")
SuggestionPriorityInfo(category) == "info"

SuggestionPriority(category) ==
    IF category \in IMPORTANT_CATEGORIES THEN "importante" ELSE "info"

SuggestionDocs(rs, expense, entity_type, user_id, clock) ==
    LET category == expense.category
        entity_id == IF entity_type = "horse" THEN expense.horse_id ELSE expense.rider_id
        interval == get_entity_interval(user_id, entity_type, entity_id, category).value
    IN  IF ~AllowListed(category) THEN <<>>
        ELSE IF ~ParseOk(expense.date) THEN <<>>
        ELSE LET next_date == strptime(expense.date) + timedelta(interval)
                 existing == ExistingAutomatic(rs, user_id, entity_type, entity_id,
                                               category, strftime(next_date))
                 reminder == [ReminderDoc(user_id, strftime(next_date), entity_type,
                                          entity_id, category,
                                          SuggestionPriority(category), <<interval>>)
                                EXCEPT !.last_completed_date = expense.date]
             IN  IF existing # {} THEN <<>>
                 ELSE IF PreavisoDue(interval, next_date, clock)
                      THEN <<reminder, PreavisoDoc(user_id, next_date, entity_type, entity_id, category)>>
                      ELSE <<reminder>>

(***************************************************************************)
(* Bounds and the inputs the requests are drawn from.                      *)
(***************************************************************************)
MaxRequests == 3    \* requests served in one behaviour
MaxTicks == 1       \* days the clock advances

\* datetime.now() at the start: 2026-01-02.
Today0 == strptime(<<2026, 1, 2>>)

BadDate == <<2025, 2, 30>>

HorseExpense(horse_id, category, date, is_recurring, create_reminder) ==
    [horse_id |-> horse_id, category |-> category, date |-> date,
     is_recurring |-> is_recurring, create_reminder |-> create_reminder]

\* <<user, ExpenseCreate body>>
HorseExpenseRequests ==
    {<<"u1", HorseExpense("h3", "veterinario", <<2025, 1, 10>>, FALSE, TRUE)>>,
     <<"u1", HorseExpense("h3", "veterinario", <<2026, 1, 2>>, FALSE, TRUE)>>,
     <<"u1", HorseExpense("h1", "fisioterapia", <<2025, 12, 20>>, FALSE, TRUE)>>,
     <<"u1", HorseExpense("h3", "fisioterapia", <<2025, 12, 20>>, TRUE, TRUE)>>,
     <<"u1", HorseExpense("h3", "pupilaje", <<2025, 12, 20>>, TRUE, TRUE)>>,
     <<"u1", HorseExpense("h3", "pupilaje", <<2025, 12, 20>>, FALSE, TRUE)>>,
     <<"u1", HorseExpense("h3", "veterinario", BadDate, TRUE, TRUE)>>,
     <<"u1", HorseExpense("h3", "veterinario", <<2025, 1, 10>>, FALSE, FALSE)>>,
     <<"u1", HorseExpense("h2", "veterinario", <<2025, 1, 10>>, FALSE, TRUE)>>,
     <<"u1", HorseExpense(MalformedId, "veterinario", <<2025, 1, 10>>, FALSE, TRUE)>>,
     <<"u1", HorseExpense("h3", "licencias", <<2025, 1, 10>>, TRUE, TRUE)>>}

RiderExpense(rider_id, category, date) ==
    [rider_id |-> rider_id, category |-> category, date |-> date]

RiderExpenseRequests ==
    {<<"u1", RiderExpense("r1", "licencias", <<2025, 1, 10>>)>>,
     <<"u1", RiderExpense("r1", "fisioterapia", <<2025, 12, 20>>)>>,
     <<"u1", RiderExpense("r1", "formacion", <<2025, 1, 10>>)>>,
     <<"u1", RiderExpense("r1", "licencias", BadDate)>>,
     <<"u2", RiderExpense("r1", "licencias", <<2025, 1, 10>>)>>,
     <<"u1", RiderExpense("r1", "veterinario", <<2025, 1, 10>>)>>}

NoOverride == [c \in {} |-> 0]

Init ==
    /\ horses = {[id |-> "h1", user_id |-> "u1", reminder_intervals |-> [c \in {"fisioterapia"} |-> 60]],
                 [id |-> "h2", user_id |-> "u2", reminder_intervals |-> [c \in {"herrador"} |-> 20]],
                 [id |-> "h3", user_id |-> "u1", reminder_intervals |-> NoOverride]}
    /\ riders = {[id |-> "r1", user_id |-> "u1", reminder_intervals |-> NoOverride]}
    /\ expenses = {}
    /\ reminders = {}
    /\ competitions = {}
    /\ now = Today0
    /\ nextId = 1
    /\ nextExp = 1
    /\ nextComp = 1
    /\ requests = 0
    /\ last = [op |-> "init", user |-> NoneStr, arg |-> <<>>, status |-> 0,
               next_reminder |-> 0, repeat |-> FALSE]
    /\ NoBackups
    /\ procs = <<>>

\* What the last request was and what it returned; repeat: it is the request
\* before it, made again.
Response(op, user, arg, status, next_reminder) ==
    [op |-> op, user |-> user, arg |-> arg, status |-> status,
     next_reminder |-> next_reminder,
     repeat |-> (last.op = op /\ last.user = user /\ last.arg = arg /\ last.status = status)]

\* The response of a request that was rejected before it changed anything.
Rejected(op) ==
    [op |-> op, user |-> NoneStr, arg |-> <<>>, status |-> 400, next_reminder |-> 0,
     repeat |-> FALSE]

\* The clock: datetime.now() moves to the next day.
Tick ==
    /\ now < Today0 + MaxTicks
    /\ now' = now + 1
    /\ last' = Response("tick", NoneStr, <<>>, 0, 0)
    /\ UNCHANGED <<horses, riders, expenses, reminders, competitions, nextId, nextExp,
                   nextComp, requests>>
    /\ UNCHANGED <<backupVars, procs>>

\* insert_one into db.expenses / db.rider_expenses.
StoreExpense(coll, user_id, entity_id) ==
    expenses \cup {[id |-> nextExp, user_id |-> user_id,
                    coll |-> coll, entity_id |-> entity_id]}

(***************************************************************************)
(* POST /expenses                                                          *)
(***************************************************************************)
\* (variant: the recurring step without the guard of its try block)
RecurringDocsUnguarded(expense, user_id) ==
    IF expense.is_recurring
    THEN <<[ReminderDoc(user_id, strftime(strptime(expense.date) + timedelta(RECURRING_DAYS)),
                        "horse", expense.horse_id, expense.category, "importante",
                        <<RECURRING_DAYS>>)
              EXCEPT !.is_recurring_payment = TRUE]>>
    ELSE <<>>

\* The monthly reminder of a recurring expense.
RecurringDocs(expense, user_id) ==
    IF expense.is_recurring /\ ParseOk(expense.date)
    THEN <<[ReminderDoc(user_id, strftime(strptime(expense.date) + timedelta(RECURRING_DAYS)),
                        "horse", expense.horse_id, expense.category, "importante",
                        <<RECURRING_DAYS>>)
              EXCEPT !.is_recurring_payment = TRUE]>>
    ELSE <<>>

ExpenseReminderDocs(rs, expense, user_id, clock) ==
    (IF expense.create_reminder
     THEN SuggestionDocs(rs, expense, "horse", user_id, clock)
     ELSE <<>>) \o RecurringDocs(expense, user_id)

create_expense(user, expense) ==
    LET rejected == \/ ~ObjectIdOk(expense.horse_id)
                    \/ FindOwned(horses, expense.horse_id, user) = {}
                    \/ expense.category \notin HORSE_EXPENSE_CATEGORIES
        docs == ExpenseReminderDocs(reminders, expense, user, now)
    IN  IF rejected
        THEN /\ last' = Rejected("create_expense")
             /\ UNCHANGED <<horses, riders, expenses, reminders, competitions, now, nextId,
                         nextExp, nextComp>>
        ELSE /\ expenses' = StoreExpense("expenses", user, expense.horse_id)
             /\ reminders' = InsertAll(reminders, docs, nextId)
             /\ nextId' = nextId + Len(docs)
             /\ nextExp' = nextExp + 1
             /\ last' = Response("create_expense", user, expense, 200, 0)
             /\ UNCHANGED <<horses, riders, competitions, now, nextComp>>

(***************************************************************************)
(* POST /rider-expenses                                                    *)
(***************************************************************************)
create_rider_expense(user, expense) ==
    LET rejected == \/ ~ObjectIdOk(expense.rider_id)
                    \/ FindOwned(riders, expense.rider_id, user) = {}
                    \/ expense.category \notin RIDER_EXPENSE_CATEGORIES
        docs == SuggestionDocs(reminders, expense, "rider", user, now)
    IN  IF rejected
        THEN /\ last' = Rejected("create_rider_expense")
             /\ UNCHANGED <<horses, riders, expenses, reminders, competitions, now, nextId,
                         nextExp, nextComp>>
        ELSE /\ expenses' = StoreExpense("rider_expenses", user, expense.rider_id)
             /\ reminders' = InsertAll(reminders, docs, nextId)
             /\ nextId' = nextId + Len(docs)
             /\ nextExp' = nextExp + 1
             /\ last' = Response("create_rider_expense", user, expense, 200, 0)
             /\ UNCHANGED <<horses, riders, competitions, now, nextComp>>

(***************************************************************************)
(* POST /reminders, PUT /reminders/{id}, DELETE /reminders/{id}            *)
(***************************************************************************)
\* ReminderCreate bodies (title, description, reminder_time left out).
ManualReminder(date, entity_type, entity_id, category, is_automatic, interval_days) ==
    [reminder_date |-> date, entity_type |-> entity_type, entity_id |-> entity_id,
     category |-> category, is_automatic |-> is_automatic, is_completed |-> FALSE,
     competition_id |-> NoneStr, priority |-> "urgente", interval_days |-> interval_days]

ReminderCreateRequests ==
    {<<"u1", ManualReminder(<<2026, 1, 10>>, "horse", NoneStr, NoneStr, FALSE, NoInt)>>,
     <<"u1", ManualReminder(<<2026, 1, 10>>, "horse", "h2", "herrador", FALSE, NoInt)>>,
     <<"u1", ManualReminder(<<2026, 1, 10>>, "horse", "h3", "veterinario", TRUE, <<40>>)>>,
     <<"u1", ManualReminder(<<2026, 1, 10>>, "horse", "h3", "veterinario", FALSE, NoInt)>>,
     <<"u1", ManualReminder(<<2026, 1, 10>>, "horse", MalformedId, "herrador", FALSE, <<40>>)>>,
     <<"u2", ManualReminder(<<2026, 1, 10>>, "rider", "r1", "otros", FALSE, <<0>>)>>}

create_reminder(user, body) ==
    /\ reminders' = reminders \cup
          {[ReminderDoc(user, body.reminder_date, body.entity_type, body.entity_id,
                        body.category, body.priority, body.interval_days)
              EXCEPT !.id = nextId,
                     !.is_automatic = body.is_automatic,
                     !.is_completed = body.is_completed,
                     !.competition_id = body.competition_id]}
    /\ nextId' = nextId + 1
    /\ last' = Response("create_reminder", user, body, 200, 0)
    /\ UNCHANGED <<horses, riders, expenses, competitions, now, nextExp, nextComp>>

\* ReminderUpdate bodies: a field left at None is not written.
NoUpdate ==
    [reminder_date |-> NoDate, entity_type |-> NoneStr, entity_id |-> NoneStr,
     category |-> NoneStr, is_completed |-> <<>>, priority |-> NoneStr,
     interval_days |-> NoInt]

ReminderUpdateBodies ==
    {[NoUpdate EXCEPT !.reminder_date = <<2026, 1, 10>>],
     [NoUpdate EXCEPT !.category = "veterinario", !.entity_id = "h3"],
     [NoUpdate EXCEPT !.is_completed = <<FALSE>>, !.interval_days = <<0>>]}

\* {"$set": update_data} on one document.
ApplyUpdate(r, body) ==
    [r EXCEPT
       !.reminder_date = IF body.reminder_date # NoDate THEN body.reminder_date ELSE @,
       !.entity_type = IF body.entity_type # NoneStr THEN body.entity_type ELSE @,
       !.entity_id = IF body.entity_id # NoneStr THEN body.entity_id ELSE @,
       !.category = IF body.category # NoneStr THEN body.category ELSE @,
       !.is_completed = IF body.is_completed # <<>> THEN body.is_completed[1] ELSE @,
       !.priority = IF body.priority # NoneStr THEN body.priority ELSE @,
       !.interval_days = IF body.interval_days # NoInt THEN body.interval_days ELSE @]

\* reminder_id 0 stands for an id that is malformed or matches no document.
update_reminder(user, reminder_id, body) ==
    LET found == FindOwned(reminders, reminder_id, user)
    IN  /\ IF found = {}
           THEN /\ reminders' = reminders
                /\ last' = Rejected("update_reminder")
           ELSE /\ reminders' = {IF r \in found THEN ApplyUpdate(r, body) ELSE r : r \in reminders}
                /\ last' = Response("update_reminder", user, <<reminder_id, body>>, 200, 0)
        /\ UNCHANGED <<horses, riders, expenses, competitions, now, nextId, nextExp, nextComp>>

delete_reminder(user, reminder_id) ==
    LET found == FindOwned(reminders, reminder_id, user)
    IN  /\ reminders' = reminders \ found
        /\ last' = IF found = {} THEN Rejected("delete_reminder")
                   ELSE Response("delete_reminder", user, reminder_id, 200, 0)
        /\ UNCHANGED <<horses, riders, expenses, competitions, now, nextId, nextExp, nextComp>>

(***************************************************************************)
(* POST /reminders/{id}/complete                                           *)
(***************************************************************************)
\* (variant: the delete_many filter without the parent date)
PreavisosOfAnyDate(rs, r, user_id) ==
    {x \in rs : /\ x.user_id = user_id
                /\ x.is_preaviso
                /\ x.entity_id = r.entity_id
                /\ x.category = r.category}

\* delete_many of the pre-notices of reminder r.
PreavisosOf(rs, r, user_id) ==
    {x \in rs : /\ x.user_id = user_id
                /\ x.is_preaviso
                /\ x.parent_reminder_date = r.reminder_date
                /\ x.entity_id = r.entity_id
                /\ x.category = r.category}

\* (variant: the reschedule flag is not read)
ShouldRescheduleAlways(r, reschedule) == r.category # NoneStr

\* (variant: a reminder that is already completed is not rescheduled)
ShouldRescheduleOnce(r, reschedule) ==
    reschedule /\ r.category # NoneStr /\ ~r.is_completed

\* (variant: a pre-notice is not rescheduled)
ShouldRescheduleMain(r, reschedule) ==
    reschedule /\ r.category # NoneStr /\ ~r.is_preaviso

\* if reschedule and reminder.get("category")
ShouldReschedule(r, reschedule) == reschedule /\ r.category # NoneStr

\* The reschedule step: [ok |-> FALSE] stands for the exception it raises.
RescheduleDocs(r, user_id, reschedule, clock) ==
    IF ~ShouldReschedule(r, reschedule) THEN [ok |-> TRUE, docs |-> <<>>]
    ELSE LET looked == get_entity_interval(user_id, r.entity_type, r.entity_id, r.category)
             stored == Truthy(r.interval_days)
             interval == IF stored THEN r.interval_days[1] ELSE looked.value
             next_date == strptime(strftime(clock)) + timedelta(interval)
             new_reminder ==
                 [ReminderDoc(user_id, strftime(next_date), r.entity_type, r.entity_id,
                              r.category,
                              IF r.priority = NoneStr THEN "info" ELSE r.priority,
                              <<interval>>)
                    EXCEPT !.last_completed_date = strftime(clock)]
         IN  IF ~stored /\ ~looked.ok THEN [ok |-> FALSE, docs |-> <<>>]
             ELSE IF interval = 0 THEN [ok |-> TRUE, docs |-> <<>>]
             ELSE IF r.entity_id # NoneStr /\ ~ObjectIdOk(r.entity_id)
                  THEN [ok |-> FALSE, docs |-> <<>>]
             ELSE IF PreavisoDue(interval, next_date, clock)
                  THEN [ok |-> TRUE,
                        docs |-> <<new_reminder,
                                   PreavisoDoc(user_id, next_date, r.entity_type,
                                               r.entity_id, r.category)>>]
                  ELSE [ok |-> TRUE, docs |-> <<new_reminder>>]

complete_and_reschedule_reminder(user, reminder_id, reschedule) ==
    LET found == FindOwned(reminders, reminder_id, user)
    IN  IF found = {}
        THEN /\ last' = Rejected("complete")
             /\ UNCHANGED <<horses, riders, expenses, reminders, competitions, now, nextId,
                         nextExp, nextComp>>
        ELSE LET r == CHOOSE x \in found : TRUE
                 marked == {IF x.id = reminder_id
                            THEN [x EXCEPT !.is_completed = TRUE,
                                           !.completed_date = strftime(now)]
                            ELSE x : x \in reminders}
                 pruned == IF r.is_automatic
                           THEN marked \ PreavisosOf(marked, r, user)
                           ELSE marked
                 res == RescheduleDocs(r, user, reschedule, now)
             IN  /\ reminders' = InsertAll(pruned, res.docs, nextId)
                 /\ nextId' = nextId + Len(res.docs)
                 /\ last' = Response("complete", user, <<reminder_id, reschedule>>,
                                     IF res.ok THEN 200 ELSE 400,
                                     IF res.docs # <<>> THEN nextId ELSE 0)
                 /\ UNCHANGED <<horses, riders, expenses, competitions, now, nextExp, nextComp>>

(***************************************************************************)
(* POST /competitions                                                      *)
(***************************************************************************)
CompetitionBodies ==
    {[date |-> <<2026, 1, 9>>, entry_deadline |-> <<2026, 1, 8>>],
     [date |-> <<2026, 1, 12>>, entry_deadline |-> NoDate],
     [date |-> <<2026, 1, 12>>, entry_deadline |-> BadDate],
     [date |-> BadDate, entry_deadline |-> <<2026, 1, 8>>]}

WEEK_BEFORE == 7
THREE_DAYS == 3
DAY_BEFORE == 1
DEADLINE_DAYS == 2

CompReminderDoc(user_id, comp_id, day) ==
    [ReminderDoc(user_id, strftime(day), "competition", comp_id, NoneStr, NoneStr, NoInt)
        EXCEPT !.competition_id = comp_id]

\* (variant: a reminder dated today is kept)
CompOffsetDocsToday(user_id, comp_id, date_obj, offset, clock) ==
    IF date_obj - timedelta(offset) >= clock
    THEN <<CompReminderDoc(user_id, comp_id, date_obj - timedelta(offset))>>
    ELSE <<>>

\* One fixed-offset reminder, kept if its date is later than datetime.now().
CompOffsetDocs(user_id, comp_id, date_obj, offset, clock) ==
    IF date_obj - timedelta(offset) > clock
    THEN <<CompReminderDoc(user_id, comp_id, date_obj - timedelta(offset))>>
    ELSE <<>>

create_competition_reminders(competition, comp_id, user_id, clock) ==
    IF ~ParseOk(competition.date) THEN <<>>
    ELSE LET date_obj == strptime(competition.date)
             entry_deadline == competition.entry_deadline
         IN  CompOffsetDocs(user_id, comp_id, date_obj, WEEK_BEFORE, clock)
             \o CompOffsetDocs(user_id, comp_id, date_obj, THREE_DAYS, clock)
             \o CompOffsetDocs(user_id, comp_id, date_obj, DAY_BEFORE, clock)
             \o (IF entry_deadline # NoDate /\ ParseOk(entry_deadline)
                 THEN CompOffsetDocs(user_id, comp_id, strptime(entry_deadline),
                                     DEADLINE_DAYS, clock)
                 ELSE <<>>)

CompId(n) == "c" \o ToString(n)

create_competition(user, body) ==
    LET comp_id == CompId(nextComp)
        docs == create_competition_reminders(body, comp_id, user, now)
    IN  /\ competitions' = competitions \cup {[id |-> comp_id, user_id |-> user]}
        /\ nextComp' = nextComp + 1
        /\ reminders' = InsertAll(reminders, docs, nextId)
        /\ nextId' = nextId + Len(docs)
        /\ last' = Response("create_competition", user, body, 200, 0)
        /\ UNCHANGED <<horses, riders, expenses, now, nextExp>>

ReminderIds == {r.id : r \in reminders} \cup {0}

\* One more request is served; its handler runs from its first line to its return.
Served ==
    /\ requests < MaxRequests
    /\ requests' = requests + 1
    /\ UNCHANGED <<backupVars, procs>>

PostExpense ==
    \E q \in HorseExpenseRequests : Served /\ create_expense(q[1], q[2])

PostRiderExpense ==
    \E q \in RiderExpenseRequests : Served /\ create_rider_expense(q[1], q[2])

PostReminder ==
    \E q \in ReminderCreateRequests : Served /\ create_reminder(q[1], q[2])

PutReminder ==
    \E i \in ReminderIds, b \in ReminderUpdateBodies : Served /\ update_reminder("u1", i, b)

DeleteReminder ==
    \E i \in ReminderIds : Served /\ delete_reminder("u1", i)

PostComplete ==
    \E u \in {"u1", "u2"}, i \in ReminderIds, f \in BOOLEAN :
        Served /\ complete_and_reschedule_reminder(u, i, f)

PostCompetition ==
    \E b \in CompetitionBodies : Served /\ create_competition("u1", b)

Next ==
    \/ Tick
    \/ PostExpense
    \/ PostRiderExpense
    \/ PostReminder
    \/ PutReminder
    \/ DeleteReminder
    \/ PostComplete
    \/ PostCompetition

Spec == Init /\ [][Next]_vars



(***************************************************************************)
(* get_entity_interval on its own: the entities and their override maps    *)
(* are drawn at the start, and each step is one call.                      *)
(***************************************************************************)
Users == {"u1", "u2"}

OverrideMaps ==
    {NoOverride,
     [c \in {"herrador"} |-> 20],
     [c \in {"herrador", "otros"} |-> IF c = "herrador" THEN 60 ELSE 15]}

EntityConfigs(id) ==
    {{}} \cup {{[id |-> id, user_id |-> u, reminder_intervals |-> m]} :
                  u \in Users, m \in OverrideMaps}

IntervalQueries ==
    {<<u, t, e, c>> : u \in Users,
                      t \in {"horse", "rider", "competition"},
                      e \in {NoneStr, "h1", "r1", "h9", MalformedId},
                      c \in {"herrador", "veterinario", "otros"}}

InitInterval ==
    /\ horses \in EntityConfigs("h1")
    /\ riders \in EntityConfigs("r1")
    /\ expenses = {}
    /\ reminders = {}
    /\ competitions = {}
    /\ now = Today0
    /\ nextId = 1
    /\ nextExp = 1
    /\ nextComp = 1
    /\ requests = 0
    /\ last = [op |-> "init", user |-> NoneStr, arg |-> <<>>, status |-> 0, value |-> 0]
    /\ NoBackups
    /\ procs = <<>>

\* One call; status 400 stands for the exception the call raises.
CallInterval ==
    \E q \in IntervalQueries :
        LET res == get_entity_interval(q[1], q[2], q[3], q[4])
        IN  /\ last' = [op |-> "get_entity_interval", user |-> q[1],
                        arg |-> <<q[2], q[3], q[4]>>,
                        status |-> IF res.ok THEN 200 ELSE 400,
                        value |-> res.value]
            /\ UNCHANGED <<horses, riders, expenses, reminders, competitions, now, nextId,
                           nextExp, nextComp, requests>>
            /\ UNCHANGED <<backupVars, procs>>

NextInterval == CallInterval

SpecInterval == InitInterval /\ [][NextInterval]_vars

(***************************************************************************)
(* DELETE /horses/{id}, /riders/{id}, /competitions/{id} and their         *)
(* cascade, as a specification of its own: entities and reminders are      *)
(* created by the handlers above and then deleted.                         *)
(***************************************************************************)
\* (variant: the cascade's delete_many without the user_id filter)
EntityRemindersOfAnyUser(rs, entity_type, entity_id, user_id) ==
    {r \in rs : r.entity_type = entity_type /\ r.entity_id = entity_id}

\* db.reminders.delete_many({"entity_type": ..., "entity_id": ..., "user_id": ...})
EntityRemindersOf(rs, entity_type, entity_id, user_id) ==
    {r \in rs : /\ r.entity_type = entity_type
                /\ r.entity_id = entity_id
                /\ r.user_id = user_id}

\* db.reminders.delete_many({"competition_id": ..., "user_id": ...})
CompetitionRemindersOf(rs, competition_id, user_id) ==
    {r \in rs : r.competition_id = competition_id /\ r.user_id = user_id}

delete_horse(user, horse_id) ==
    LET found == IF ObjectIdOk(horse_id) THEN FindOwned(horses, horse_id, user) ELSE {}
    IN  IF found = {}
        THEN /\ last' = Rejected("delete_horse")
             /\ UNCHANGED <<horses, riders, expenses, reminders, competitions, now, nextId,
                            nextExp, nextComp>>
        ELSE /\ expenses' = {e \in expenses : ~(/\ e.coll = "expenses"
                                                 /\ e.entity_id = horse_id
                                                 /\ e.user_id = user)}
             /\ reminders' = reminders \ EntityRemindersOf(reminders, "horse", horse_id, user)
             /\ horses' = horses \ found
             /\ last' = Response("delete_horse", user, <<horse_id>>, 200, 0)
             /\ UNCHANGED <<riders, competitions, now, nextId, nextExp, nextComp>>

delete_rider(user, rider_id) ==
    LET found == IF ObjectIdOk(rider_id) THEN FindOwned(riders, rider_id, user) ELSE {}
    IN  IF found = {}
        THEN /\ last' = Rejected("delete_rider")
             /\ UNCHANGED <<horses, riders, expenses, reminders, competitions, now, nextId,
                            nextExp, nextComp>>
        ELSE /\ expenses' = {e \in expenses : ~(/\ e.coll = "rider_expenses"
                                                 /\ e.entity_id = rider_id
                                                 /\ e.user_id = user)}
             /\ reminders' = reminders \ EntityRemindersOf(reminders, "rider", rider_id, user)
             /\ riders' = riders \ found
             /\ last' = Response("delete_rider", user, <<rider_id>>, 200, 0)
             /\ UNCHANGED <<horses, competitions, now, nextId, nextExp, nextComp>>

\* The reminders go first; a competition_id that is malformed or matches no
\* competition of the user then ends the request in 400.
delete_competition(user, competition_id) ==
    LET found == IF ObjectIdOk(competition_id)
                 THEN FindOwned(competitions, competition_id, user) ELSE {}
    IN  /\ reminders' = reminders \ CompetitionRemindersOf(reminders, competition_id, user)
        /\ competitions' = competitions \ found
        /\ last' = Response("delete_competition", user, <<competition_id>>,
                            IF found = {} THEN 400 ELSE 200, 0)
        /\ UNCHANGED <<horses, riders, expenses, now, nextId, nextExp, nextComp>>

\* ReminderCreate bodies that name an entity, a competition or both.
LinkedReminderRequests ==
    {<<"u1", [ManualReminder(<<2026, 1, 10>>, "horse", "h3", "herrador", FALSE, NoInt)
                EXCEPT !.competition_id = CompId(1)]>>,
     <<"u2", ManualReminder(<<2026, 1, 10>>, "horse", "h3", "herrador", FALSE, NoInt)>>,
     <<"u1", ManualReminder(<<2026, 1, 10>>, "rider", "h3", NoneStr, FALSE, NoInt)>>,
     <<"u1", ManualReminder(<<2026, 1, 10>>, "rider", "r1", NoneStr, FALSE, NoInt)>>,
     <<"u1", ManualReminder(<<2026, 1, 10>>, "competition", CompId(1), NoneStr, FALSE, NoInt)>>,
     <<"u2", [ManualReminder(<<2026, 1, 10>>, "competition", CompId(1), NoneStr, FALSE, NoInt)
                EXCEPT !.competition_id = CompId(1)]>>}

PostLinkedReminder ==
    \E q \in LinkedReminderRequests : Served /\ create_reminder(q[1], q[2])

PostFirstExpense ==
    \E q \in {HorseExpense("h3", "veterinario", <<2025, 1, 10>>, FALSE, TRUE),
               HorseExpense("h1", "fisioterapia", <<2025, 12, 20>>, FALSE, TRUE)} :
        Served /\ create_expense("u1", q)

DeleteHorse ==
    \E u \in {"u1", "u2"}, h \in {"h1", "h3", MalformedId} : Served /\ delete_horse(u, h)

DeleteRider ==
    \E u \in {"u1", "u2"}, r \in {"r1", MalformedId} : Served /\ delete_rider(u, r)

DeleteCompetition ==
    \E u \in {"u1", "u2"}, c \in {CompId(1), CompId(2), MalformedId} :
        Served /\ delete_competition(u, c)

\* POST /competitions with two more bodies: one whose four reminder dates
\* are all ahead, and one whose D-7 has passed and whose L-2 is today.
LinkedCompetitionBodies ==
    CompetitionBodies
    \cup {[date |-> <<2026, 1, 12>>, entry_deadline |-> <<2026, 1, 8>>],
          [date |-> <<2026, 1, 8>>, entry_deadline |-> <<2026, 1, 4>>]}

PostLinkedCompetition ==
    \E b \in LinkedCompetitionBodies : Served /\ create_competition("u1", b)

NextCascade ==
    \/ PostFirstExpense
    \/ PostRiderExpense
    \/ PostLinkedReminder
    \/ PostLinkedCompetition
    \/ DeleteHorse
    \/ DeleteRider
    \/ DeleteCompetition

SpecCascade == Init /\ [][NextCascade]_vars

(***************************************************************************)
(* Backups: perform_automatic_backup, create_backup and restore_backup.    *)
(*                                                                         *)
(* Representation.  A value of a document is a record: t is its Python     *)
(* type, key the key it is stored under (in a document or a dict), n what  *)
(* tells it from other values of its type, and items the elements of a     *)
(* list or dict.  A string carries its length in len and the syntax of its *)
(* text in form: "hex" for the 24 hex digits str(ObjectId) returns, "iso"  *)
(* for what datetime.isoformat returns, "txt" for any other text.  A       *)
(* document is the sequence of its values.  A collection is a sequence of  *)
(* runs: a run is a document and the number of consecutive documents that  *)
(* differ from it only by consecutive _id values.                          *)
(***************************************************************************)
Value(t, form, n, len, items) ==
    [t |-> t, key |-> "", form |-> form, n |-> n, len |-> len, items |-> items]

ObjectIdValue(n) == Value("ObjectId", "", n, 0, <<>>)
DatetimeValue(n) == Value("datetime", "", n, 0, <<>>)
StrValue(form, n, len) == Value("str", form, n, len, <<>>)
NoneValue == Value("None", "", 0, 0, <<>>)
ListValue(items) == Value("list", "", 0, 0, items)
DictValue(items) == Value("dict", "", 0, 0, items)

\* The value stored under key k.
At(k, value) == [value EXCEPT !.key = k]

Run(doc, copies) == [doc |-> doc, copies |-> copies]

\* str(ObjectId) and datetime.isoformat().
OBJECT_ID_HEX_LEN == 24
ISOFORMAT_LEN == 26

\* serialize_value of both backup functions.
RECURSIVE serialize_value(_)
serialize_value(value) ==
    CASE value.t = "None" -> value
      [] value.t = "ObjectId" -> At(value.key, StrValue("hex", value.n, OBJECT_ID_HEX_LEN))
      [] value.t = "datetime" -> At(value.key, StrValue("iso", value.n, ISOFORMAT_LEN))
      [] value.t = "bytes" -> At(value.key, NoneValue)
      [] value.t \in {"list", "dict"} ->
            [value EXCEPT !.items = [i \in DOMAIN value.items |->
                                        serialize_value(value.items[i])]]
      [] OTHER -> value

MEDIA_KEYS == {"photo", "photos", "documents", "invoice_photos"}
MAX_MEDIA_LEN == 350000
DATA_TOO_LARGE == StrValue("txt", 0, 16)

\* Python truthiness of a value (the "and value" of the media test).
ValueTruthy(value) ==
    CASE value.t \in {"None"} -> FALSE
      [] value.t = "str" -> value.len > 0
      [] value.t = "bytes" -> TRUE
      [] value.t = "int" -> value.n # 0
      [] value.t \in {"list", "dict"} -> value.items # <<>>
      [] OTHER -> TRUE

\* (variant: the size test with >= in place of >)
TooLargeInclusive(value) == value.t = "str" /\ value.len >= MAX_MEDIA_LEN

\* isinstance(value, str) and len(value) > 350000
TooLarge(value) == value.t = "str" /\ value.len > MAX_MEDIA_LEN

Redacted(value) == At(value.key, DATA_TOO_LARGE)

\* One item of a list under a media key: a long string, or a dict whose own
\* long strings are replaced; anything else goes through serialize_value.
FilterItem(item) ==
    IF TooLarge(item) THEN Redacted(item)
    ELSE IF item.t = "dict"
    THEN [item EXCEPT !.items = [j \in DOMAIN item.items |->
                                    IF TooLarge(item.items[j])
                                    THEN Redacted(item.items[j])
                                    ELSE serialize_value(item.items[j])]]
    ELSE serialize_value(item)

\* One key of a document, as the loop over doc.items() stores it.
SerializeField(value) ==
    IF value.key \in MEDIA_KEYS /\ ValueTruthy(value)
    THEN IF TooLarge(value) THEN Redacted(value)
         ELSE IF value.t = "list"
         THEN [value EXCEPT !.items = [i \in DOMAIN value.items |->
                                          FilterItem(value.items[i])]]
         ELSE serialize_value(value)
    ELSE serialize_value(value)

SerializeDoc(doc) == [i \in DOMAIN doc |-> SerializeField(doc[i])]

\* collection.find({}).to_list(limit), and len() of a list of documents.
FIND_LIMIT == 100000

RECURSIVE to_list(_, _)
to_list(runs, limit) ==
    IF runs = <<>> \/ limit = 0 THEN <<>>
    ELSE IF Head(runs).copies >= limit
         THEN <<Run(Head(runs).doc, limit)>>
         ELSE <<Head(runs)>> \o to_list(Tail(runs), limit - Head(runs).copies)

RECURSIVE DocCount(_)
DocCount(runs) == IF runs = <<>> THEN 0 ELSE Head(runs).copies + DocCount(Tail(runs))

SerializedDocs(runs) ==
    [i \in DOMAIN runs |-> Run(SerializeDoc(runs[i].doc), runs[i].copies)]

\* A backup id is the text of a uuid4 or, for a legacy record, of its _id.
BackupId(form, n) == [form |-> form, n |-> n]
NoBackupId == BackupId("none", 0)

\* b.get("backup_id", str(b["_id"]))
ActualBackupId(b) ==
    IF b.backup_id # NoBackupId THEN b.backup_id ELSE BackupId("hex", b._id)

\* part_data: the chunk of one collection.
PartData(backup_id, collection_name, created_by) ==
    [backup_id |-> backup_id,
     collection_name |-> collection_name,
     created_at |-> utc,
     created_by |-> created_by,
     documents |-> SerializedDocs(to_list(store[collection_name], FIND_LIMIT)),
     doc_count |-> DocCount(SerializedDocs(to_list(store[collection_name], FIND_LIMIT)))]

\* backup_record: the summary (size_mb, a rounded size of the text, is left out).
BackupRecord(backup_id, created_by, type, collections_backed_up) ==
    [_id |-> utc,
     backup_id |-> backup_id,
     created_at |-> utc,
     created_by |-> created_by,
     type |-> type,
     collections |-> collections_backed_up,
     has_data |-> FALSE,
     data |-> <<>>]

\* Retention: find({}).sort("created_at", -1).to_list(100), then [7:].
BACKUP_LIST_LIMIT == 100
KEEP_BACKUPS == 7

NewerThan(b, all) == {c \in all : c.created_at > b.created_at}

all_backups(all) == {b \in all : Cardinality(NewerThan(b, all)) < BACKUP_LIST_LIMIT}

OldBackups(all) ==
    {b \in all_backups(all) : Cardinality(NewerThan(b, all)) >= KEEP_BACKUPS}

\* backup_parts.delete_many({"backup_id": old_id}) for each old summary.
OldParts(parts, old) ==
    {p \in parts : p.backup_id \in {ActualBackupId(b) : b \in old}}

\* The body both snapshot functions share; failing is the set of collections
\* whose step raises and is skipped by its except clause.
Snapshot(op, created_by, type, failing) ==
    LET backup_id == BackupId("uuid", utc)
        collections_backed_up ==
            SelectSeq(collections_to_backup, LAMBDA c : c \notin failing)
        parts == {PartData(backup_id, collections_backed_up[i], created_by) :
                     i \in DOMAIN collections_backed_up}
        all == backups \cup {BackupRecord(backup_id, created_by, type,
                                          collections_backed_up)}
        old == OldBackups(all)
    IN  /\ backups' = all \ old
        /\ backup_parts' = (backup_parts \cup parts) \ OldParts(backup_parts \cup parts, old)
        /\ utc' = utc + 1
        /\ store' = store
        /\ last' = [op |-> op, status |-> 200, backup_id |-> backup_id,
                    failing |-> failing]

perform_automatic_backup(failing) ==
    Snapshot("perform_automatic_backup", "SYSTEM_AUTO", "automatic", failing)

create_backup(failing) == Snapshot("create_backup", "admin", "manual", failing)

\* The conversions of restore_backup: "_id" through ObjectId(), created_at and
\* updated_at through datetime.fromisoformat(); what does not parse stays.
RestoreField(value) ==
    IF value.key = "_id" /\ value.t = "str" /\ value.form = "hex"
    THEN At(value.key, ObjectIdValue(value.n))
    ELSE IF /\ value.key \in {"created_at", "updated_at"}
            /\ value.t = "str" /\ value.form = "iso"
    THEN At(value.key, DatetimeValue(value.n))
    ELSE value

RestoreDoc(doc) == [i \in DOMAIN doc |-> RestoreField(doc[i])]

\* (variant: the documents are converted and never inserted)
RestoredDocsDropped(docs) == <<>>

\* insert_many(docs) after the conversions.
RestoredDocs(docs) == [i \in DOMAIN docs |-> Run(RestoreDoc(docs[i].doc), docs[i].copies)]

\* (variant: the collection is not cleared first)
ClearedKept(docs) == docs

\* collection.delete_many({})
Cleared(docs) == <<>>

BACKUP_META == {"backups", "backup_parts"}

\* One entry of collections_data: the documents of a collection, or the
\* {"error": ...} dict a legacy backup holds in their place.
CollectionData(collection_name, error, documents) ==
    [collection_name |-> collection_name, error |-> error, documents |-> documents]

\* (variant: the entries holding an error are not skipped)
RestoreTargetsWithErrors(collections_data) ==
    {d \in collections_data : d.collection_name \notin BACKUP_META}

\* The entries the loop of restore_backup does not skip.
RestoreTargets(collections_data) ==
    {d \in collections_data : d.collection_name \notin BACKUP_META /\ ~d.error}

\* find_one by backup_id, then by ObjectId(backup_id) for legacy records.
FindBackup(backup_id) ==
    LET by_id == {b \in backups : b.backup_id = backup_id}
    IN  IF by_id # {} THEN by_id
        ELSE IF backup_id.form = "hex" THEN {b \in backups : b._id = backup_id.n}
        ELSE {}

restore_backup(backup_id) ==
    LET found == FindBackup(backup_id)
        backup == CHOOSE b \in found : TRUE
        actual_backup_id == ActualBackupId(backup)
        parts == {p \in backup_parts : p.backup_id = actual_backup_id}
        collections_data ==
            IF parts # {}
            THEN {CollectionData(p.collection_name, FALSE, p.documents) : p \in parts}
            ELSE {backup.data[i] : i \in DOMAIN backup.data}
        targets == RestoreTargets(collections_data)
    IN  IF found = {} \/ (parts = {} /\ ~backup.has_data)
        THEN /\ last' = [op |-> "restore_backup", status |-> 404,
                         backup_id |-> backup_id, failing |-> {}]
             /\ UNCHANGED <<backupVars, procs>>
        ELSE /\ store' = [c \in DOMAIN store |->
                            IF \E d \in targets : d.collection_name = c
                            THEN LET d == CHOOSE d \in targets : d.collection_name = c
                                 IN  Cleared(store[c]) \o RestoredDocs(d.documents)
                            ELSE store[c]]
             /\ last' = [op |-> "restore_backup", status |-> 200,
                         backup_id |-> backup_id, failing |-> {}]
             /\ UNCHANGED <<backups, backup_parts, utc>>

(***************************************************************************)
(* The backups as a specification of its own: the store and the backups it *)
(* starts with are drawn from a few configurations, and each step is a     *)
(* snapshot, a restore, or a request that writes a document.               *)
(***************************************************************************)
LongText(n) == StrValue("txt", n, MAX_MEDIA_LEN + 1)
LimitText(n) == StrValue("txt", n, MAX_MEDIA_LEN)
ShortText(n) == StrValue("txt", n, 8)

\* A horse with media of every shape HorseCreate accepts (photo: str, photos:
\* List[str], documents: List[dict]) and a long text under another key.
HorseWithMedia ==
    <<At("_id", ObjectIdValue(1)),
      At("created_at", DatetimeValue(1)),
      At("updated_at", DatetimeValue(2)),
      At("name", ShortText(1)),
      At("photo", LongText(2)),
      At("photos", ListValue(<<LimitText(3), LongText(4)>>)),
      At("documents",
         ListValue(<<DictValue(<<At("name", ShortText(5)),
                                 At("data", LongText(6)),
                                 At("meta", DictValue(<<At("raw", LongText(7))>>))>>)>>)),
      At("notes", LongText(8))>>

PlainHorse ==
    <<At("_id", ObjectIdValue(2)),
      At("created_at", DatetimeValue(3)),
      At("name", ShortText(9)),
      At("photo", NoneValue),
      At("photos", ListValue(<<>>))>>

UserDoc ==
    <<At("_id", ObjectIdValue(3)),
      At("created_at", DatetimeValue(4)),
      At("updated_at", DatetimeValue(5)),
      At("name", ShortText(13))>>

AssociationDoc ==
    <<At("_id", ObjectIdValue(1000)),
      At("horse_id", StrValue("hex", 1, OBJECT_ID_HEX_LEN)),
      At("rider_id", StrValue("hex", 9, OBJECT_ID_HEX_LEN))>>

EmptyStore == [c \in CollectionNames |-> <<>>]

SmallStore ==
    [EmptyStore EXCEPT !["horses"] = <<Run(HorseWithMedia, 1), Run(PlainHorse, 1)>>,
                       !["users"] = <<Run(UserDoc, 1)>>]

\* A store whose association collection holds one document more than find() reads.
LargeStore ==
    [EmptyStore EXCEPT !["horses"] = <<Run(PlainHorse, 1)>>,
                       !["horse_rider_associations"] =
                           <<Run(AssociationDoc, FIND_LIMIT + 1)>>]

\* What an earlier snapshot read: the plain horse only.
EarlierDocs(collection_name) ==
    IF collection_name = "horses" THEN SerializedDocs(<<Run(PlainHorse, 1)>>) ELSE <<>>

EarlierRecord(i) ==
    [_id |-> i, backup_id |-> BackupId("uuid", i), created_at |-> i,
     created_by |-> "SYSTEM_AUTO", type |-> "automatic",
     collections |-> collections_to_backup, has_data |-> FALSE, data |-> <<>>]

EarlierParts(i) ==
    {[backup_id |-> BackupId("uuid", i), collection_name |-> c, created_at |-> i,
      created_by |-> "SYSTEM_AUTO", documents |-> EarlierDocs(c),
      doc_count |-> DocCount(EarlierDocs(c))] : c \in CollectionNames}

\* Legacy records: no backup_id, the data inline (or no data at all).
LegacyInline(i) ==
    [_id |-> i, backup_id |-> NoBackupId, created_at |-> i,
     created_by |-> "admin", type |-> "manual", collections |-> <<>>,
     has_data |-> TRUE,
     data |-> <<CollectionData("horses", FALSE, EarlierDocs("horses")),
                CollectionData("users", TRUE, <<>>),
                CollectionData("backups", FALSE, <<>>)>>]

LegacyEmpty(i) ==
    [_id |-> i, backup_id |-> NoBackupId, created_at |-> i,
     created_by |-> "admin", type |-> "manual", collections |-> <<>>,
     has_data |-> FALSE, data |-> <<>>]

\* How many legacy records the store of an installation older than the
\* retention step holds in the third configuration.
LegacyCount == BACKUP_LIST_LIMIT + 1

\* <<backups, backup_parts, utc>> at the start.
BackupConfigs ==
    {<<{}, {}, 1>>,
     <<{EarlierRecord(1), LegacyInline(2), LegacyEmpty(3)}
         \cup {EarlierRecord(i) : i \in 4..KEEP_BACKUPS},
       EarlierParts(1) \cup UNION {EarlierParts(i) : i \in 4..KEEP_BACKUPS},
       KEEP_BACKUPS + 1>>,
     <<{LegacyInline(i) : i \in 1..LegacyCount}, {}, LegacyCount + 1>>}

InitBackup ==
    /\ horses = {}
    /\ riders = {}
    /\ expenses = {}
    /\ reminders = {}
    /\ competitions = {}
    /\ now = Today0
    /\ nextId = 1
    /\ nextExp = 1
    /\ nextComp = 1
    /\ requests = 0
    /\ \E cfg \in BackupConfigs, s \in {SmallStore, LargeStore} :
          /\ cfg[1] = {} \/ s = SmallStore
          /\ store = s
          /\ backups = cfg[1]
          /\ backup_parts = cfg[2]
          /\ utc = cfg[3]
    /\ last = [op |-> "init", status |-> 0, backup_id |-> NoBackupId, failing |-> {}]
    /\ procs = <<>>

\* One more backup operation or request; the reminder engine is left alone.
BackupServed ==
    /\ requests < MaxRequests
    /\ requests' = requests + 1
    /\ UNCHANGED <<apiVars, procs>>

\* The sets of collections whose step fails in one snapshot.
FailingSets == {{}, {"horses"}}

AutomaticBackup ==
    \E failing \in FailingSets : BackupServed /\ perform_automatic_backup(failing)

ManualBackup ==
    \E failing \in FailingSets : BackupServed /\ create_backup(failing)

\* The ids a restore is asked for: the newest and the three oldest records,
\* the text of the _id of the oldest, and two ids that match nothing.
RestoreIds ==
    {ActualBackupId(b) : b \in {b \in backups : \/ NewerThan(b, backups) = {}
                                                \/ b.created_at <= 3}}
    \cup {BackupId("hex", b._id) : b \in {b \in backups : b.created_at <= 1}}
    \cup {BackupId("uuid", 0), BackupId("hex", 0)}

RestoreBackup ==
    \E id \in RestoreIds : BackupServed /\ restore_backup(id)

\* POST /horses and POST /expenses: insert_one of a new document.
NewDocs ==
    {<<"horses", <<At("_id", ObjectIdValue(100 + utc)),
                   At("created_at", DatetimeValue(100 + utc)),
                   At("name", ShortText(10)),
                   At("photo", LongText(11))>>>>,
     <<"expenses", <<At("_id", ObjectIdValue(100 + utc)),
                     At("created_at", DatetimeValue(100 + utc)),
                     At("invoice_photos", ListValue(<<LongText(12)>>))>>>>}

InsertDocument ==
    \E q \in NewDocs :
        /\ BackupServed
        /\ store' = [store EXCEPT ![q[1]] = Append(@, Run(q[2], 1))]
        /\ utc' = utc + 1
        /\ last' = [op |-> "insert", status |-> 200, backup_id |-> NoBackupId,
                    failing |-> {}]
        /\ UNCHANGED <<backups, backup_parts>>

\* DELETE /horses/{id}: delete_one of the oldest horse.
DeleteDocument ==
    /\ store["horses"] # <<>>
    /\ BackupServed
    /\ store' = [store EXCEPT !["horses"] = Tail(@)]
    /\ last' = [op |-> "delete", status |-> 200, backup_id |-> NoBackupId,
                failing |-> {}]
    /\ UNCHANGED <<backups, backup_parts, utc>>

NextBackup ==
    \/ AutomaticBackup
    \/ ManualBackup
    \/ RestoreBackup
    \/ InsertDocument
    \/ DeleteDocument

SpecBackup == InitBackup /\ [][NextBackup]_vars


(***************************************************************************)
(* Properties of the reminder engine.                                      *)
(***************************************************************************)
\* What a request inserted and what it removed.
Inserted == {x \in reminders' : x.id \notin {r.id : r \in reminders}}
Removed == {r \in reminders : r.id \notin {x.id : x \in reminders'}}

ExpenseOps == {"create_expense", "create_rider_expense"}

Key(r) == <<r.entity_type, r.entity_id, r.category, r.reminder_date>>

\* C1: no two automatic reminders share (entity_type, entity_id, category,
\* reminder_date), in any state reached by requests served one after another.
C1_NoDuplicateAutomatic ==
    \A a, b \in reminders :
        (a.is_automatic /\ b.is_automatic /\ Key(a) = Key(b)) => a.id = b.id

\* C2 as stated: an expense whose category is outside the allow-list leaves the
\* reminders collection as it was, whatever its other fields.
C2_NoReminderOutsideAllowList ==
    [][(/\ last'.op \in ExpenseOps
        /\ last'.status = 200
        /\ last'.arg.category \notin DOMAIN DEFAULT_REMINDER_INTERVALS)
       => reminders' = reminders]_vars

\* C2 amended: such an expense leaves the reminders collection as it was, except
\* that a horse expense with is_recurring and a well-formed date inserts exactly
\* one reminder, its monthly recurring-payment reminder, 30 days after its date.
C2_OnlyRecurringOutsideAllowList ==
    [][(/\ last'.op \in ExpenseOps
        /\ last'.status = 200
        /\ last'.arg.category \notin DOMAIN DEFAULT_REMINDER_INTERVALS)
       => IF /\ last'.op = "create_expense"
             /\ last'.arg.is_recurring
             /\ ParseOk(last'.arg.date)
          THEN /\ Removed = {}
               /\ Cardinality(Inserted) = 1
               /\ \A x \in Inserted :
                    /\ x.is_recurring_payment
                    /\ x.reminder_date = strftime(strptime(last'.arg.date) + 30)
                    /\ {r \in reminders' : r.id # x.id} = reminders
          ELSE reminders' = reminders]_vars

\* A non-recurring expense outside the allow-list was stored while reminders exist.
C2_Witness ==
    /\ last.op \in ExpenseOps
    /\ last.status = 200
    /\ last.arg.category \notin DOMAIN DEFAULT_REMINDER_INTERVALS
    /\ reminders # {}
    /\ expenses # {}

\* The reminder a completion request names, as it was before the request.
Completed == CHOOSE r \in reminders : r.id = last'.arg[1]

CompleteServed == last'.op = "complete" /\ last'.arg # <<>>

NewMains == {x \in Inserted : ~x.is_preaviso}
NewPreavisos == {x \in Inserted : x.is_preaviso}

\* compute_interval for a reminder; 0 where the lookup raises.
Lookup(r) == get_entity_interval(last'.user, r.entity_type, r.entity_id, r.category)

\* The successor reminders of a completion with the given interval: one main
\* reminder due today + interval, and one pre-notice iff interval > 30.
SuccessorsFor(r, interval) ==
    /\ Cardinality(NewMains) = 1
    /\ \A x \in NewMains :
         /\ x.is_automatic
         /\ ~x.is_completed
         /\ x.reminder_date = strftime(now + interval)
         /\ x.entity_type = r.entity_type
         /\ x.entity_id = r.entity_id
         /\ x.category = r.category
    /\ Cardinality(NewPreavisos) = IF interval > 30 THEN 1 ELSE 0
    /\ \A x \in NewPreavisos :
         /\ x.parent_reminder_date = strftime(now + interval)
         /\ x.reminder_date = strftime(now + interval - 7)

\* C3 as stated: completing a reminder that has a category with reschedule=true
\* always inserts exactly one main reminder due today + (stored interval_days
\* when it has one, else compute_interval), and one pre-notice iff interval > 30.
C3_RescheduleAlwaysInserts ==
    [][(CompleteServed /\ last'.arg[2] /\ Completed.category # NoneStr)
       => SuccessorsFor(Completed,
                        IF Completed.interval_days # NoInt
                        THEN Completed.interval_days[1]
                        ELSE Lookup(Completed).value)]_vars

\* C3 amended: the stored interval_days counts only when it is set and non-zero;
\* the successors are inserted when the reminder's entity_id is null or a
\* well-formed id and the resolved interval is non-zero.  With a malformed
\* entity_id the request ends in 400 and inserts nothing (the reminder stays
\* marked completed); with a resolved interval of zero nothing is inserted.
C3_RescheduleInserts ==
    [][(CompleteServed /\ last'.arg[2] /\ Completed.category # NoneStr)
       => LET r == Completed
              stored == r.interval_days # NoInt /\ r.interval_days[1] # 0
              interval == IF stored THEN r.interval_days[1] ELSE Lookup(r).value
          IN  IF r.entity_id # NoneStr /\ ~ObjectIdOk(r.entity_id)
              THEN Inserted = {} /\ last'.status = 400
              ELSE IF interval = 0
              THEN Inserted = {} /\ last'.status = 200
              ELSE SuccessorsFor(r, interval) /\ last'.status = 200]_vars

\* A completion with reschedule=true has inserted a successor and its pre-notice.
C3_Witness ==
    /\ last.op = "complete"
    /\ last.status = 200
    /\ last.arg[2]
    /\ \E m, p \in reminders :
         /\ m.id = last.next_reminder
         /\ p.is_preaviso
         /\ p.parent_reminder_date = m.reminder_date
         /\ p.id = m.id + 1

\* C4: completing a reminder with is_automatic=false never inserts a reminder.
C4_ManualNeverRescheduled ==
    [][(CompleteServed /\ ~Completed.is_automatic) => Inserted = {}]_vars

\* Pre-notices that point at reminder r: same parent date, entity_id, category.
PointsAt(x, r) ==
    /\ x.is_preaviso
    /\ x.parent_reminder_date = r.reminder_date
    /\ x.entity_id = r.entity_id
    /\ x.category = r.category

\* C5 as stated: after a successful completion of R, R is completed today and
\* no pre-notice remains with R's due date as parent and R's entity and category.
C5_CompletedAndNoPreaviso ==
    [][(CompleteServed /\ last'.status = 200)
       => /\ \E x \in reminders' :
               /\ x.id = Completed.id
               /\ x.is_completed
               /\ x.completed_date = strftime(now)
          /\ \A x \in reminders' : ~PointsAt(x, Completed)]_vars

\* C5 amended: after a successful completion of R, R is completed today unless R
\* is itself a pre-notice the step removes; and when R is automatic, every
\* pre-notice of the caller that existed before the request and points at R is
\* gone (for a manual R they stay, and the reschedule step may insert a new
\* pre-notice with the same parent date).
C5_CompletedAndOldPreavisosGone ==
    [][(CompleteServed /\ last'.status = 200)
       => LET r == Completed
          IN  /\ ~(r.is_automatic /\ PointsAt(r, r))
                 => \E x \in reminders' :
                       /\ x.id = r.id
                       /\ x.is_completed
                       /\ x.completed_date = strftime(now)
              /\ r.is_automatic
                 => \A x \in reminders :
                       (x.user_id = last'.user /\ PointsAt(x, r))
                          => x.id \notin {y.id : y \in reminders'}
              /\ \A x \in Removed : r.is_automatic /\ PointsAt(x, r)]_vars

\* An automatic reminder was completed and its pre-notice was removed with it.
C5_Witness ==
    /\ last.op = "complete"
    /\ last.status = 200
    /\ \E x \in reminders :
         /\ x.id = last.arg[1]
         /\ x.is_completed
         /\ x.is_automatic
         /\ x.interval_days = <<365>>
         /\ ~\E p \in reminders : PointsAt(p, x)

\* An expense request that was accepted, its entity and its computed interval.
ExpenseServed == last'.op \in ExpenseOps /\ last'.status = 200
ExpenseEntityType == IF last'.op = "create_expense" THEN "horse" ELSE "rider"
ExpenseEntityId ==
    IF last'.op = "create_expense" THEN last'.arg.horse_id ELSE last'.arg.rider_id
ExpenseInterval ==
    get_entity_interval(last'.user, ExpenseEntityType, ExpenseEntityId,
                        last'.arg.category).value

\* The main reminders the suggestion step inserted.
SuggestedMains == {x \in Inserted : ~x.is_preaviso /\ ~x.is_recurring_payment}

\* The pre-notice of main reminder m: dated 7 days before it, linked to it.
IsPreavisoOf(p, m) ==
    /\ p.is_preaviso
    /\ p.parent_reminder_date = m.reminder_date
    /\ p.reminder_date = strftime(strptime(m.reminder_date) - 7)
    /\ p.entity_type = m.entity_type
    /\ p.entity_id = m.entity_id
    /\ p.category = m.category
    /\ p.user_id = m.user_id

\* C6 as stated: with a main reminder created by the expense path, exactly one
\* pre-notice is created when interval > 30 unless its date is earlier than the
\* current date (so one dated today is created), and none when interval <= 30.
C6_PreavisoUnlessEarlier ==
    [][ExpenseServed
       => \A m \in SuggestedMains :
             IF /\ ExpenseInterval > 30
                /\ ~(strptime(m.reminder_date) - 7 < now)
             THEN /\ Cardinality(NewPreavisos) = 1
                  /\ \A p \in NewPreavisos : IsPreavisoOf(p, m)
             ELSE NewPreavisos = {}]_vars

\* C6 amended: the pre-notice is created when interval > 30 and its date is later
\* than the current date; a pre-notice dated today or earlier is skipped, and
\* none is created when interval <= 30 or when no main reminder was created.
C6_PreavisoIfLater ==
    [][ExpenseServed
       => /\ \A m \in SuggestedMains :
                IF /\ ExpenseInterval > 30
                   /\ strptime(m.reminder_date) - 7 > now
                THEN /\ Cardinality(NewPreavisos) = 1
                     /\ \A p \in NewPreavisos : IsPreavisoOf(p, m)
                ELSE NewPreavisos = {}
          /\ SuggestedMains = {} => NewPreavisos = {}]_vars

\* The expense path has created a main reminder and its pre-notice.
C6_Witness ==
    /\ last.op \in ExpenseOps
    /\ last.status = 200
    /\ \E m, p \in reminders :
         /\ m.last_completed_date = last.arg.date
         /\ m.interval_days # NoInt
         /\ m.interval_days[1] > 30
         /\ IsPreavisoOf(p, m)
         /\ p.id = m.id + 1

\* The reminder the claim expects of an accepted, allow-listed, well-dated
\* expense when no automatic reminder has its key yet.
ExpectedSuggestions ==
    {x \in Inserted :
        /\ ~x.is_preaviso
        /\ x.is_automatic
        /\ ~x.is_completed
        /\ x.entity_type = ExpenseEntityType
        /\ x.entity_id = ExpenseEntityId
        /\ x.category = last'.arg.category
        /\ x.reminder_date = strftime(strptime(last'.arg.date) + ExpenseInterval)
        /\ x.interval_days = <<ExpenseInterval>>
        /\ x.priority = IF last'.arg.category \in
                              {"veterinario", "vacunas", "licencias", "seguros"}
                        THEN "importante" ELSE "info"}

SuggestionCase ==
    /\ ExpenseServed
    /\ last'.arg.category \in DOMAIN DEFAULT_REMINDER_INTERVALS
    /\ ParseOk(last'.arg.date)
    /\ ~\E r \in reminders :
          /\ r.is_automatic
          /\ Key(r) = <<ExpenseEntityType, ExpenseEntityId, last'.arg.category,
                        strftime(strptime(last'.arg.date) + ExpenseInterval)>>

\* C7 as stated: every such expense inserts exactly one main automatic reminder
\* due D + compute_interval, with that interval_days and the category's priority.
C7_ExpenseInsertsMain ==
    [][SuggestionCase => Cardinality(ExpectedSuggestions) = 1]_vars

\* C7 amended: it does so unless a horse expense carries create_reminder=false,
\* in which case the suggestion step is skipped and it inserts no such reminder.
C7_ExpenseInsertsMainIfAsked ==
    [][SuggestionCase
       => IF last'.op = "create_expense" /\ ~last'.arg.create_reminder
          THEN SuggestedMains = {} /\ NewPreavisos = {}
          ELSE Cardinality(ExpectedSuggestions) = 1]_vars

\* veterinario on 2025-01-10 with no override: due 2026-01-10, "importante".
C7_Witness ==
    /\ last.op = "create_expense"
    /\ last.status = 200
    /\ last.arg.category = "veterinario"
    /\ last.arg.date = <<2025, 1, 10>>
    /\ \E x \in reminders :
         /\ x.reminder_date = <<2026, 1, 10>>
         /\ x.priority = "importante"
         /\ x.interval_days = <<365>>
         /\ x.entity_id = last.arg.horse_id
         /\ x.last_completed_date = last.arg.date

\* C9: the same expense request made again, with nothing in between, makes the
\* suggestion step insert nothing: no second main reminder and no second
\* pre-notice (a recurring horse expense still adds its monthly reminder).
C9_SuggestionIdempotent ==
    [][(ExpenseServed /\ last'.repeat)
       => /\ Removed = {}
          /\ \A x \in reminders' : x \in reminders \/ x.is_recurring_payment]_vars

\* An allow-listed expense that had created its reminder was recorded again.
C9_Witness ==
    /\ last.op \in ExpenseOps
    /\ last.status = 200
    /\ last.repeat
    /\ last.arg.category \in DOMAIN DEFAULT_REMINDER_INTERVALS
    /\ \E m \in reminders :
         /\ m.category = last.arg.category
         /\ m.last_completed_date = last.arg.date
         /\ ~m.is_preaviso
    /\ nextExp = 3

\* C10: with reschedule=false a completion inserts nothing and returns a null
\* next_reminder, and changes nothing but the completed reminder's completion
\* fields and the pre-notices that point at it; and next_reminder is non-null
\* exactly when a new main reminder was inserted.
C10_NoRescheduleFrame ==
    [][CompleteServed
       => /\ ~last'.arg[2]
             => /\ Inserted = {}
                /\ last'.next_reminder = 0
                /\ \A r \in Removed : PointsAt(r, Completed)
                /\ \A x \in reminders' : \E r \in reminders :
                      x = IF r.id = Completed.id
                          THEN [r EXCEPT !.is_completed = TRUE,
                                         !.completed_date = strftime(now)]
                          ELSE r
          /\ last'.next_reminder # 0 <=> NewMains # {}
          /\ \A m \in NewMains : m.id = last'.next_reminder]_vars

\* A reminder with a category was completed with reschedule=false.
C10_Witness ==
    /\ last.op = "complete"
    /\ last.status = 200
    /\ ~last.arg[2]
    /\ last.next_reminder = 0
    /\ \E r \in reminders :
         /\ r.id = last.arg[1]
         /\ r.category # NoneStr
         /\ r.is_completed
         /\ Cardinality(reminders) > 1

\* What the claim says get_entity_interval returns for the call in last.
ExpectedInterval ==
    LET entity_type == last.arg[1]
        entity_id == last.arg[2]
        category == last.arg[3]
        coll == IF entity_type = "horse" THEN horses ELSE riders
        own == {e \in coll : /\ e.id = entity_id
                             /\ e.user_id = last.user
                             /\ category \in DOMAIN e.reminder_intervals}
    IN  IF entity_id # NoneStr /\ own # {}
        THEN (CHOOSE e \in own : TRUE).reminder_intervals[category]
        ELSE IF category \in {"herrador", "veterinario", "dentista", "vacunas",
                              "desparasitacion", "fisioterapia", "licencias",
                              "seguros", "equipamiento", "pasaporte", "itv_remolque"}
             THEN DEFAULT_REMINDER_INTERVALS[category]
             ELSE 30

\* C8 as stated: for every entity_type, entity_id and category the call returns
\* the user's entity's override for the category, else the default-table value,
\* else 30.
C8_IntervalForEveryInput ==
    last.op = "get_entity_interval"
       => last.status = 200 /\ last.value = ExpectedInterval

\* C8 amended: it returns that value for every entity_id that is null or a
\* well-formed id; for a malformed entity_id it raises and returns nothing.
C8_IntervalForWellFormedId ==
    last.op = "get_entity_interval"
       => IF last.arg[2] = MalformedId
          THEN last.status = 400
          ELSE last.status = 200 /\ last.value = ExpectedInterval

\* The override of the user's own horse was returned in place of the default.
C8_Witness ==
    /\ last.op = "get_entity_interval"
    /\ last.status = 200
    /\ last.arg = <<"horse", "h1", "herrador">>
    /\ last.value = 60
    /\ \E h \in horses : h.user_id = last.user

(***************************************************************************)
(* Pre-notices, competition reminders and malformed dates.                 *)
(***************************************************************************)
\* C11: in every reachable state every pre-notice (is_preaviso) has its
\* parent_reminder_date set, whichever request created or last changed it.
C11_PreavisoHasParent ==
    \A r \in reminders : r.is_preaviso => r.parent_reminder_date # NoDate

\* A pre-notice created by the expense path has been updated by its owner.
C11_Witness ==
    /\ last.op = "update_reminder"
    /\ last.status = 200
    /\ \E r \in reminders :
         /\ r.id = last.arg[1]
         /\ r.is_preaviso
         /\ r.parent_reminder_date # NoDate

\* The reminders of a competition whose event date parsed.
CompetitionServed == last'.op = "create_competition" /\ last'.status = 200

NewCompId == CompId(nextComp)

\* The reminder a competition gets at day, as the claim describes it.
LinkedAt(day) ==
    {x \in Inserted : /\ x.reminder_date = strftime(day)
                      /\ x.competition_id = NewCompId
                      /\ x.is_automatic
                      /\ x.user_id = last'.user}

\* The days the claim expects reminders at: D-7, D-3, D-1 and, with a deadline,
\* L-2, each one only if it is later than the current date.
ExpectedCompDays ==
    LET D == strptime(last'.arg.date)
        L == last'.arg.entry_deadline
    IN  {d \in {D - 7, D - 3, D - 1} : d > now}
        \cup (IF L # NoDate /\ strptime(L) - 2 > now THEN {strptime(L) - 2} ELSE {})

\* How many reminders that is (two offsets may fall on one day).
ExpectedCompCount ==
    LET D == strptime(last'.arg.date)
        L == last'.arg.entry_deadline
        One(d) == IF d > now THEN 1 ELSE 0
    IN  One(D - 7) + One(D - 3) + One(D - 1)
        + (IF L # NoDate THEN One(strptime(L) - 2) ELSE 0)

\* C12: a competition with event date D and optional deadline L gets at most
\* four automatic reminders linked to it, at D-7, D-3, D-1 and L-2, each one
\* created exactly when its own date has not passed, whatever the others do.
C12_CompetitionReminders ==
    [][(/\ CompetitionServed
        /\ ParseOk(last'.arg.date)
        /\ last'.arg.entry_deadline # NoDate => ParseOk(last'.arg.entry_deadline))
       => /\ Removed = {}
          /\ Cardinality(Inserted) <= 4
          /\ \A x \in Inserted :
                x \in LinkedAt(strptime(x.reminder_date))
                /\ strptime(x.reminder_date) \in ExpectedCompDays
          /\ \A d \in ExpectedCompDays : LinkedAt(d) # {}
          /\ Cardinality(Inserted) = ExpectedCompCount]_vars

\* A competition got all four reminders: D = 2026-01-12, L = 2026-01-08.
C12_Witness ==
    /\ last.op = "create_competition"
    /\ last.arg.date = <<2026, 1, 12>>
    /\ last.arg.entry_deadline = <<2026, 1, 8>>
    /\ \A day \in {<<2026, 1, 5>>, <<2026, 1, 9>>, <<2026, 1, 11>>, <<2026, 1, 6>>} :
          \E x \in reminders : x.reminder_date = day /\ x.competition_id # NoneStr

\* An expense request the handler does not reject: own entity, known category.
HorseExpenseAccepted(q) ==
    /\ ObjectIdOk(q[2].horse_id)
    /\ \E h \in horses : h.id = q[2].horse_id /\ h.user_id = q[1]
    /\ q[2].category \in HORSE_EXPENSE_CATEGORIES

RiderExpenseAccepted(q) ==
    /\ ObjectIdOk(q[2].rider_id)
    /\ \E r \in riders : r.id = q[2].rider_id /\ r.user_id = q[1]
    /\ q[2].category \in RIDER_EXPENSE_CATEGORIES

\* An acceptable expense with an unparseable date is stored, answered with
\* success, and creates no reminder.
BadDateExpenseStored ==
    /\ \A q \in HorseExpenseRequests :
          (/\ Served /\ create_expense(q[1], q[2])
           /\ HorseExpenseAccepted(q) /\ ~ParseOk(q[2].date))
          => /\ last'.status = 200
             /\ \E e \in expenses' : e.id = nextExp /\ e.entity_id = q[2].horse_id
             /\ reminders' = reminders
    /\ \A q \in RiderExpenseRequests :
          (/\ Served /\ create_rider_expense(q[1], q[2])
           /\ RiderExpenseAccepted(q) /\ ~ParseOk(q[2].date))
          => /\ last'.status = 200
             /\ \E e \in expenses' : e.id = nextExp /\ e.entity_id = q[2].rider_id
             /\ reminders' = reminders

\* The days of the event-date reminders and of the deadline reminder that are due.
EventDays ==
    IF ParseOk(last'.arg.date)
    THEN {d \in {strptime(last'.arg.date) - 7, strptime(last'.arg.date) - 3,
                 strptime(last'.arg.date) - 1} : d > now}
    ELSE {}

DeadlineDays ==
    IF last'.arg.entry_deadline # NoDate /\ ParseOk(last'.arg.entry_deadline)
    THEN {d \in {strptime(last'.arg.entry_deadline) - 2} : d > now}
    ELSE {}

CompetitionStored ==
    /\ last'.status = 200
    /\ \E c \in competitions' : c.id = NewCompId /\ c.user_id = last'.user
    /\ Removed = {}

\* C14 as stated: a malformed date never aborts the request, and all it costs is
\* the reminder of the occurrence whose own date did not parse; a competition
\* with an unparseable event date still gets its entry-deadline reminder.
C14_OnlyUnparsedOccurrenceLost ==
    [][/\ BadDateExpenseStored
       /\ last'.op = "create_competition"
          => /\ CompetitionStored
             /\ {strptime(x.reminder_date) : x \in Inserted} = EventDays \cup DeadlineDays]_vars

\* C14 amended: a malformed date never aborts the request; an expense with an
\* unparseable date creates no reminder, a competition with an unparseable event
\* date creates none of its reminders (the entry-deadline reminder included), and
\* one with an unparseable entry deadline loses only the deadline reminder.
C14_BadDateNeverAborts ==
    [][/\ BadDateExpenseStored
       /\ last'.op = "create_competition"
          => /\ CompetitionStored
             /\ {strptime(x.reminder_date) : x \in Inserted} =
                   IF ParseOk(last'.arg.date) THEN EventDays \cup DeadlineDays ELSE {}
             /\ \A x \in Inserted : x.competition_id = NewCompId]_vars

\* A recurring expense and a competition with unparseable dates were both stored,
\* and a competition with an unparseable deadline kept its event reminders.
C14_Witness ==
    /\ last.op = "create_competition"
    /\ last.status = 200
    /\ last.arg.date = <<2026, 1, 12>>
    /\ last.arg.entry_deadline = BadDate
    /\ Cardinality(reminders) = 3
    /\ Cardinality(competitions) = 2
    /\ expenses # {}

(***************************************************************************)
(* Cascade deletion.                                                       *)
(***************************************************************************)
DeleteOps == {"delete_horse", "delete_rider", "delete_competition"}

\* Reminder r of the caller references the entity the request deleted.
ReferencesDeleted(r) ==
    /\ r.user_id = last'.user
    /\ IF last'.op = "delete_competition"
       THEN r.competition_id = last'.arg[1]
       ELSE /\ r.entity_type = (IF last'.op = "delete_horse" THEN "horse" ELSE "rider")
            /\ r.entity_id = last'.arg[1]

\* C13: after a successful delete_competition, delete_horse or delete_rider no
\* reminder of the caller references the deleted entity, and every other
\* reminder is as it was.
C13_CascadeDelete ==
    [][(last'.op \in DeleteOps /\ last'.status = 200)
       => /\ \A r \in reminders' : ~ReferencesDeleted(r)
          /\ reminders' = {r \in reminders : ~ReferencesDeleted(r)}]_vars

\* A competition was deleted with its reminders while other reminders stayed.
C13_Witness ==
    /\ last.op = "delete_competition"
    /\ last.status = 200
    /\ competitions = {}
    /\ reminders # {}
    /\ nextId - 1 > Cardinality(reminders)

(***************************************************************************)
(* Properties of the backups (under SpecBackup).                           *)
(***************************************************************************)
SnapshotOps == {"perform_automatic_backup", "create_backup"}

\* This step is a finished snapshot operation.
SnapshotDone == last'.op \in SnapshotOps /\ last'.status = 200

\* The summary the snapshot of this step wrote.
NewSummaries == {b \in backups' : b.backup_id = last'.backup_id}

\* The summaries this step removed.
RemovedSummaries == backups \ backups'

\* C15: whenever a snapshot operation (automatic or manual) has finished, the
\* store holds at most 7 summaries and no chunk remains under the id of a
\* summary that retention removed, whatever the number of summaries before.
C15_Retention ==
    [][SnapshotDone =>
          /\ Cardinality(backups') <= 7
          /\ \A b \in RemovedSummaries :
                \A p \in backup_parts' : p.backup_id # ActualBackupId(b)]_vars

\* C15 where the listing of retention saw every summary.
C15_RetentionWithinListing ==
    [][SnapshotDone /\ Cardinality(backups) < BACKUP_LIST_LIMIT =>
          /\ Cardinality(backups') <= 7
          /\ \A b \in RemovedSummaries :
                \A p \in backup_parts' : p.backup_id # ActualBackupId(b)]_vars

\* A snapshot has just removed a summary that had chunks.
C15_Witness ==
    /\ last.op \in SnapshotOps
    /\ Cardinality(backups) = 7
    /\ \A p \in backup_parts : p.backup_id # BackupId("uuid", 1)
    /\ \E p \in backup_parts : p.backup_id = last.backup_id

\* The names a summary lists, and the chunks stored under its id after this step.
Listed(b) == {b.collections[i] : i \in DOMAIN b.collections}

ChunksOf(b) == {p \in backup_parts' : p.backup_id = ActualBackupId(b)}

\* The chunks of b are one per listed collection and none for another, and a
\* collection whose step failed is in neither.
ChunksMatchList(b) ==
    /\ {p.collection_name : p \in ChunksOf(b)} = Listed(b)
    /\ \A p, q \in ChunksOf(b) : p.collection_name = q.collection_name => p = q
    /\ Len(b.collections) = Cardinality(Listed(b))
    /\ Listed(b) \cap last'.failing = {}

\* C16: for every summary a snapshot operation writes, its chunks are exactly
\* one per collection the summary lists (a failed step is absent from both),
\* and each chunk's doc_count is the number of documents in the chunk and the
\* number of documents the collection held when it was read.
C16_ChunksAndCounts ==
    [][SnapshotDone =>
          /\ NewSummaries # {}
          /\ \A b \in NewSummaries :
                /\ ChunksMatchList(b)
                /\ \A p \in ChunksOf(b) :
                      /\ p.doc_count = DocCount(p.documents)
                      /\ p.doc_count = DocCount(store[p.collection_name])]_vars

\* C16 for collections of at most FIND_LIMIT documents.
C16_ChunksAndCountsWithinLimit ==
    [][SnapshotDone =>
          /\ NewSummaries # {}
          /\ \A b \in NewSummaries :
                /\ ChunksMatchList(b)
                /\ \A p \in ChunksOf(b) :
                      /\ p.doc_count = DocCount(p.documents)
                      /\ DocCount(store[p.collection_name]) <= FIND_LIMIT
                            => p.doc_count = DocCount(store[p.collection_name])]_vars

\* A snapshot whose horses step failed has just written ten chunks, one of
\* them holding a document.
C16_Witness ==
    /\ last.op \in SnapshotOps
    /\ last.failing = {"horses"}
    /\ Cardinality({p \in backup_parts : p.backup_id = last.backup_id}) = 10
    /\ \E p \in backup_parts : p.backup_id = last.backup_id /\ p.doc_count = 1

\* This step is a restore that succeeded.
RestoreDone == last'.op = "restore_backup" /\ last'.status = 200

\* The chunks of the snapshot the restore of this step was asked for.
RestoredChunks ==
    {p \in backup_parts :
        \E b \in FindBackup(last'.backup_id) : p.backup_id = ActualBackupId(b)}

\* r is the stored value s of a chunk document with its native type back.
ConvertedBack(s, r) ==
    IF s.key = "_id" /\ s.t = "str"
    THEN r.t = "ObjectId" /\ r.key = "_id" /\ r.n = s.n
    ELSE IF s.key \in {"created_at", "updated_at"} /\ s.t = "str"
    THEN r.t = "datetime" /\ r.key = s.key /\ r.n = s.n
    ELSE r = s

DocConvertedBack(chunk_doc, doc) ==
    /\ Len(doc) = Len(chunk_doc)
    /\ \A j \in DOMAIN chunk_doc : ConvertedBack(chunk_doc[j], doc[j])

\* C17: after a restore succeeds, every collection that has a chunk in the
\* snapshot (backups and backup_parts aside) holds exactly the chunk's
\* documents, string _id and created_at/updated_at back in their native
\* types, and every document it held before that is not in the snapshot is gone.
C17_RestoreReplaces ==
    [][RestoreDone =>
          \A p \in RestoredChunks :
              p.collection_name \notin BACKUP_META =>
                  LET now_held == store'[p.collection_name]
                      held == store[p.collection_name]
                  IN  /\ Len(now_held) = Len(p.documents)
                      /\ \A i \in DOMAIN p.documents :
                            /\ now_held[i].copies = p.documents[i].copies
                            /\ DocConvertedBack(p.documents[i].doc, now_held[i].doc)
                      /\ \A i \in DOMAIN held :
                            (\A k \in DOMAIN p.documents :
                                ~DocConvertedBack(p.documents[k].doc, held[i].doc))
                            => \A k \in DOMAIN now_held : now_held[k].doc # held[i].doc]_vars

\* A restore of the oldest snapshot has just replaced the two horses of the
\* store by the one horse of the chunk and emptied the users.
C17_Witness ==
    /\ last.op = "restore_backup"
    /\ last.status = 200
    /\ last.backup_id = BackupId("uuid", 1)
    /\ store["horses"] = <<Run(PlainHorse, 1)>>
    /\ store["users"] = <<>>

\* This step creates a snapshot right after a restore that succeeded.
RoundTrip ==
    /\ last.op = "restore_backup"
    /\ last.status = 200
    /\ SnapshotDone

\* The chunks a summary had before this step.
ChunksBefore(b) == {p \in backup_parts : p.backup_id = ActualBackupId(b)}

\* The snapshot the restore before this step restored from its chunks.
RestoredSummaries == {b \in FindBackup(last.backup_id) : ChunksBefore(b) # {}}

\* The chunks of m and of n hold the same documents for collection c.
SameDocuments(m, n, c) ==
    \A p \in ChunksOf(m), q \in ChunksBefore(n) :
        p.collection_name = c /\ q.collection_name = c => p.documents = q.documents

NewChunks == {p \in backup_parts' : p.backup_id = last'.backup_id}

\* What the collection of chunk p held when it was read.
ReadDocs(p) == to_list(store[p.collection_name], FIND_LIMIT)

LongString(value) == value.t = "str" /\ value.len > 350000

Sentinel(stored) == stored.t = "str" /\ stored.form = "txt" /\ stored.len = 16 /\ stored.n = 0

\* stored is value with every long string in it, at any depth, replaced.
RECURSIVE RedactedAtAnyDepth(_, _)
RedactedAtAnyDepth(value, stored) ==
    IF LongString(value) THEN Sentinel(stored) /\ stored.key = value.key
    ELSE IF value.t \in {"list", "dict"}
    THEN /\ stored.t = value.t
         /\ stored.key = value.key
         /\ Len(stored.items) = Len(value.items)
         /\ \A i \in DOMAIN value.items : RedactedAtAnyDepth(value.items[i], stored.items[i])
    ELSE stored = serialize_value(value)

\* stored is value with the long strings replaced that are the value itself,
\* an item of the list it is, or a value of a dict that is such an item.
RedactedToDictInList(value, stored) ==
    IF LongString(value) THEN Sentinel(stored) /\ stored.key = value.key
    ELSE IF value.t = "list"
    THEN /\ stored.t = "list"
         /\ stored.key = value.key
         /\ Len(stored.items) = Len(value.items)
         /\ \A i \in DOMAIN value.items :
               LET item == value.items[i]
                   kept == stored.items[i]
               IN  IF LongString(item) THEN Sentinel(kept)
                   ELSE IF item.t = "dict"
                   THEN /\ kept.t = "dict"
                        /\ Len(kept.items) = Len(item.items)
                        /\ \A j \in DOMAIN item.items :
                              IF LongString(item.items[j])
                              THEN Sentinel(kept.items[j])
                                   /\ kept.items[j].key = item.items[j].key
                              ELSE kept.items[j] = serialize_value(item.items[j])
                   ELSE kept = serialize_value(item)
    ELSE stored = serialize_value(value)

\* C19: in every chunk document, every string longer than 350000 characters
\* under photo, photos, documents or invoice_photos, whether the value itself
\* or nested in a list or dict under it, is replaced by "[DATA_TOO_LARGE]";
\* shorter strings and the fields under other keys are stored unredacted.
C19_Redaction ==
    [][SnapshotDone =>
          \A p \in NewChunks : \A i \in DOMAIN p.documents :
              \A j \in DOMAIN p.documents[i].doc :
                  LET value == ReadDocs(p)[i].doc[j]
                      stored == p.documents[i].doc[j]
                  IN  IF value.key \in {"photo", "photos", "documents", "invoice_photos"}
                      THEN RedactedAtAnyDepth(value, stored)
                      ELSE stored = serialize_value(value)]_vars

\* C19 with the nesting the code looks into: the value, the items of a list,
\* and the values of a dict that is an item of the list.
C19_RedactionToDictInList ==
    [][SnapshotDone =>
          \A p \in NewChunks : \A i \in DOMAIN p.documents :
              \A j \in DOMAIN p.documents[i].doc :
                  LET value == ReadDocs(p)[i].doc[j]
                      stored == p.documents[i].doc[j]
                  IN  IF value.key \in {"photo", "photos", "documents", "invoice_photos"}
                      THEN RedactedToDictInList(value, stored)
                      ELSE stored = serialize_value(value)]_vars

\* A snapshot has just stored the horse with its long photo and the long
\* data of its document replaced, the photo of 350000 characters and the
\* long notes as they were.
C19_Witness ==
    /\ last.op \in SnapshotOps
    /\ \E p \in backup_parts :
          /\ p.backup_id = last.backup_id
          /\ p.collection_name = "horses"
          /\ p.documents # <<>>
          /\ LET doc == p.documents[1].doc
             IN  /\ Len(doc) = 8
                 /\ doc[5] = At("photo", DATA_TOO_LARGE)
                 /\ doc[6].items = <<LimitText(3), DATA_TOO_LARGE>>
                 /\ doc[7].items[1].items[2] = At("data", DATA_TOO_LARGE)
                 /\ doc[8] = At("notes", LongText(8))

\* This step is a restore request, whatever its outcome.
RestoreAsked == last'.op = "restore_backup"

\* The summaries the id of the request matches, by backup_id or by the text
\* of the record id.
Matched ==
    {b \in backups : \/ b.backup_id = last'.backup_id
                     \/ last'.backup_id = BackupId("hex", b._id)}

HasChunk(b, c) == \E p \in ChunksBefore(b) : p.collection_name = c

\* A legacy summary without chunks that holds a list of documents for c.
HasInlineList(b, c) ==
    /\ ChunksBefore(b) = {}
    /\ b.has_data
    /\ \E i \in DOMAIN b.data : b.data[i].collection_name = c /\ ~b.data[i].error

NothingToRestore ==
    \/ Matched = {}
    \/ \A b \in Matched : ChunksBefore(b) = {} /\ ~b.has_data

\* C20: a restore never modifies backups and backup_parts and leaves every
\* collection that has no chunk in the snapshot as it was; a request whose id
\* matches no summary, or whose summary has neither chunks nor legacy inline
\* data, is rejected and changes no collection.
C20_RestoreFrame ==
    [][RestoreAsked =>
          /\ backups' = backups
          /\ backup_parts' = backup_parts
          /\ \A b \in Matched : \A c \in CollectionNames :
                ~HasChunk(b, c) => store'[c] = store[c]
          /\ NothingToRestore => last'.status = 404 /\ store' = store]_vars

\* C20 where a collection is left as it was when the snapshot has neither a
\* chunk nor, being a legacy snapshot without chunks, an inline list for it.
C20_RestoreFrameInline ==
    [][RestoreAsked =>
          /\ backups' = backups
          /\ backup_parts' = backup_parts
          /\ \A b \in Matched : \A c \in CollectionNames :
                ~HasChunk(b, c) /\ ~HasInlineList(b, c) => store'[c] = store[c]
          /\ NothingToRestore => last'.status = 404 /\ store' = store]_vars

\* A restore of a snapshot whose horses step had failed has just replaced
\* the users and left the horses, one of them inserted after the snapshot.
C20_Witness ==
    /\ last.op = "restore_backup"
    /\ last.status = 200
    /\ \E b \in backups :
          /\ b.backup_id = last.backup_id
          /\ "horses" \notin {b.collections[i] : i \in DOMAIN b.collections}
          /\ "users" \in {b.collections[i] : i \in DOMAIN b.collections}
    /\ Len(store["horses"]) = 3

\* A restore request has just been rejected.
C20_WitnessRejected ==
    /\ last.op = "restore_backup"
    /\ last.status = 404
    /\ last.backup_id = BackupId("hex", 3)

(***************************************************************************)
(* Completion of completed reminders and of pre-notices (under Spec).      *)
(***************************************************************************)
\* The reschedule step of this completion inserts: the reminder has a
\* category, a null or well-formed entity_id and a non-zero resolved interval.
Reschedulable(r) ==
    /\ r.category # NoneStr
    /\ r.entity_id = NoneStr \/ ObjectIdOk(r.entity_id)
    /\ IF r.interval_days # NoInt /\ r.interval_days[1] # 0
       THEN TRUE
       ELSE Lookup(r).value # 0

MainsKept == \A m \in reminders : ~m.is_preaviso => m \in reminders'

C30_NoOrphanPreavisos ==
    \A p \in reminders :
        (p.is_preaviso /\ ~p.is_completed)
        => \E m \in reminders :
              /\ ~m.is_preaviso
              /\ m.is_automatic
              /\ m.user_id = p.user_id
              /\ m.entity_id = p.entity_id
              /\ m.category = p.category
              /\ m.reminder_date = p.parent_reminder_date
              /\ ParseOk(m.reminder_date) /\ ParseOk(p.reminder_date)
              /\ strptime(m.reminder_date) = strptime(p.reminder_date) + 7

\* A main reminder was deleted and its pre-notice is still there.
C30_Witness ==
    /\ last.op = "delete_reminder"
    /\ last.status = 200
    /\ \E p \in reminders :
          /\ p.is_preaviso
          /\ ~p.is_completed
          /\ \A m \in reminders : m.is_preaviso \/ m.reminder_date # p.parent_reminder_date

(***************************************************************************)
(* Requests in flight.  The event loop runs a handler until its next       *)
(* await and may then run another one, so a handler is a sequence of       *)
(* steps, one per database call.  procs holds the handlers in flight: pc   *)
(* is the call a handler makes next, docs the reminder documents it has    *)
(* still to insert, seen the ids of the reminders that existed when it ran *)
(* its existence check, made the ids of the reminders it has inserted.     *)
(* DELETE /horses/{id} and DELETE /competitions/{id} run between the       *)
(* steps as whole requests.  last changes when a handler returns.          *)
(***************************************************************************)
MaxInFlight == 2    \* handlers started in one behaviour

Handler(op, pc, user, body, docs) ==
    [op |-> op, pc |-> pc, user |-> user, body |-> body, docs |-> docs,
     seen |-> {}, made |-> {}]

\* The response of a handler that has made its last call.
Returned(h) == Response(h.op, h.user, h.body, 200, 0)

\* POST /expenses up to its first write: db.horses.find_one and the
\* category check.
BeginExpense ==
    \E q \in {<<"u1", HorseExpense("h3", "veterinario", <<2025, 1, 10>>, FALSE, TRUE)>>,
               <<"u2", HorseExpense("h1", "fisioterapia", <<2025, 12, 20>>, FALSE, TRUE)>>} :
        LET rejected == \/ ~ObjectIdOk(q[2].horse_id)
                        \/ FindOwned(horses, q[2].horse_id, q[1]) = {}
                        \/ q[2].category \notin HORSE_EXPENSE_CATEGORIES
        IN  /\ Len(procs) < MaxInFlight
            /\ procs' = Append(procs, Handler("create_expense",
                                              IF rejected THEN "done" ELSE "insert_expense",
                                              q[1], q[2], <<>>))
            /\ last' = IF rejected THEN Rejected("create_expense") ELSE last
            /\ UNCHANGED <<apiVars, backupVars, requests>>

\* await db.expenses.insert_one(expense_dict)
InsertExpense ==
    \E p \in DOMAIN procs :
        /\ procs[p].pc = "insert_expense"
        /\ expenses' = StoreExpense("expenses", procs[p].user, procs[p].body.horse_id)
        /\ nextExp' = nextExp + 1
        /\ procs' = [procs EXCEPT ![p].pc = "check"]
        /\ UNCHANGED <<horses, riders, reminders, competitions, now, nextId, nextComp,
                       backupVars, requests, last>>

\* create_automatic_reminder_suggestion up to its first write: the interval,
\* the existence check and the documents the handler goes on to insert.
CheckExisting ==
    \E p \in DOMAIN procs :
        LET docs == ExpenseReminderDocs(reminders, procs[p].body, procs[p].user, now)
        IN  /\ procs[p].pc = "check"
            /\ procs' = [procs EXCEPT ![p].pc = IF docs = <<>> THEN "done" ELSE "insert",
                                      ![p].docs = docs,
                                      ![p].seen = {r.id : r \in reminders}]
            /\ last' = IF docs = <<>> THEN Returned(procs[p]) ELSE last
            /\ UNCHANGED <<apiVars, backupVars, requests>>

\* await db.reminders.insert_one(...): the next document of the handler.
InsertReminder ==
    \E p \in DOMAIN procs :
        /\ procs[p].pc = "insert"
        /\ reminders' = InsertAll(reminders, <<Head(procs[p].docs)>>, nextId)
        /\ nextId' = nextId + 1
        /\ procs' = [procs EXCEPT ![p].pc = IF Len(procs[p].docs) = 1 THEN "done" ELSE "insert",
                                  ![p].docs = Tail(procs[p].docs),
                                  ![p].made = procs[p].made \cup {nextId}]
        /\ last' = IF Len(procs[p].docs) = 1 THEN Returned(procs[p]) ELSE last
        /\ UNCHANGED <<horses, riders, expenses, competitions, now, nextExp, nextComp,
                       backupVars, requests>>

\* POST /competitions up to its first reminder: db.competitions.insert_one;
\* create_competition_reminders then inserts one reminder per await.
BeginCompetition ==
    \E b \in {[date |-> <<2026, 1, 9>>, entry_deadline |-> NoDate],
               [date |-> BadDate, entry_deadline |-> NoDate]} :
        LET comp_id == CompId(nextComp)
            docs == create_competition_reminders(b, comp_id, "u1", now)
        IN  /\ Len(procs) < MaxInFlight
            /\ competitions' = competitions \cup {[id |-> comp_id, user_id |-> "u1"]}
            /\ nextComp' = nextComp + 1
            /\ procs' = Append(procs, Handler("create_competition",
                                              IF docs = <<>> THEN "done" ELSE "insert",
                                              "u1", b, docs))
            /\ last' = IF docs = <<>>
                       THEN Response("create_competition", "u1", b, 200, 0) ELSE last
            /\ UNCHANGED <<horses, riders, expenses, reminders, now, nextId, nextExp,
                           backupVars, requests>>

\* DELETE /horses/{id} and DELETE /competitions/{id} of the owner, served
\* between two steps of the handlers in flight.
DeleteInFlight ==
    \/ Served /\ delete_horse("u1", "h3")
    \/ Served /\ delete_competition("u1", CompId(1))

NextRace ==
    \/ BeginExpense
    \/ InsertExpense
    \/ CheckExisting
    \/ InsertReminder
    \/ BeginCompetition
    \/ DeleteInFlight

SpecRace == Init /\ [][NextRace]_vars

(***************************************************************************)
(* Properties of the requests in flight (SpecRace).                        *)
(***************************************************************************)
\* The key of the existence check: user, entity, category and date.
SameKey(r, s) ==
    /\ r.user_id = s.user_id
    /\ r.entity_type = s.entity_type
    /\ r.entity_id = s.entity_id
    /\ r.category = s.category
    /\ r.reminder_date = s.reminder_date

\* Two automatic reminders, neither a pre-notice, with one key.
DuplicateAutomatic ==
    {pair \in reminders \X reminders :
        /\ pair[1].id < pair[2].id
        /\ SameKey(pair[1], pair[2])
        /\ pair[1].is_automatic /\ pair[2].is_automatic
        /\ ~pair[1].is_preaviso /\ ~pair[2].is_preaviso}

InFlight == {p \in DOMAIN procs : procs[p].pc # "done"}

\* C22: the existence check and the insert of the expense path are two
\* steps with nothing between them excluded: a handler never inserts a
\* suggested reminder whose key an automatic reminder held when the handler
\* ran its check, so two automatic reminders with one key come only from
\* handlers that both ran the check before either one inserted -- and that
\* interleaving is reachable (C22_Witness).
C22_CheckThenInsert ==
    \A p \in DOMAIN procs :
        procs[p].op = "create_expense" =>
            \A r \in reminders, s \in reminders :
                (/\ r.id \in procs[p].made /\ ~r.is_preaviso
                 /\ s.id \in procs[p].seen /\ s.is_automatic)
                    => ~SameKey(r, s)

\* Two POST /expenses with one body have both returned, and the reminders
\* hold two automatic reminders with one key.
C22_Witness ==
    /\ Len(procs) = 2
    /\ InFlight = {}
    /\ procs[1].op = "create_expense" /\ procs[2].op = "create_expense"
    /\ procs[1].made # {} /\ procs[2].made # {}
    /\ procs[1].seen = {} /\ procs[2].seen = {}
    /\ DuplicateAutomatic # {}

\* An expense of db.expenses whose horse is gone, or a reminder whose horse
\* or competition is gone.
Dangling ==
    {<<"expense", e.id>> : e \in {e \in expenses :
        e.coll = "expenses" /\ ~\E h \in horses : h.id = e.entity_id}}
    \cup {<<"reminder", r.id>> : r \in {r \in reminders :
        \/ r.entity_type = "horse" /\ ~\E h \in horses : h.id = r.entity_id
        \/ r.competition_id # NoneStr /\ ~\E c \in competitions : c.id = r.competition_id}}

\* C29: however the handlers interleave, once none is in flight no expense
\* and no reminder references a horse or a competition that does not exist.
C29_NoDanglingReference == InFlight = {} => Dangling = {}

(***************************************************************************)
(* The backups when a database call raises: a call that raises has no      *)
(* effect of its own, except insert_many, which has inserted the documents *)
(* before the one it raises at.  A restore ends at the call; a snapshot    *)
(* ends at the call when it is made outside the per-collection try blocks. *)
(***************************************************************************)
\* The entries restore_backup loops over, in the order of the loop: the
\* chunks as find() returns them, or the collections of the inline data.
RestoreOrder(backup, parts) ==
    IF parts # {}
    THEN LET names == SelectSeq(collections_to_backup,
                                LAMBDA c : \E p \in parts : p.collection_name = c)
         IN  [i \in DOMAIN names |->
                LET p == CHOOSE p \in parts : p.collection_name = names[i]
                IN  CollectionData(p.collection_name, FALSE, p.documents)]
    ELSE backup.data

\* restore_backup when the call `call` on collection `at` raises; kept is
\* how many documents insert_many had inserted by then.
restore_backup_raising(backup_id, at, call, kept) ==
    LET found == FindBackup(backup_id)
        backup == CHOOSE b \in found : TRUE
        actual_backup_id == ActualBackupId(backup)
        parts == {p \in backup_parts : p.backup_id = actual_backup_id}
    IN  /\ call = "delete_many" => kept = 0
        /\ found # {}
        /\ parts # {} \/ backup.has_data
        /\ \E order \in {SelectSeq(RestoreOrder(backup, parts),
                                    LAMBDA d : RestoreTargets({d}) # {})} :
              \E k \in {i \in DOMAIN order : order[i].collection_name = at} :
                 /\ call = "insert_many" => kept < Len(order[k].documents)
                 /\ store' = [c \in DOMAIN store |->
                       LET reached == {i \in 1..k : order[i].collection_name = c}
                           i == CHOOSE i \in reached : TRUE
                       IN  IF reached = {} THEN store[c]
                           ELSE IF i < k
                           THEN Cleared(store[c]) \o RestoredDocs(order[i].documents)
                           ELSE IF call = "insert_many"
                           THEN Cleared(store[c])
                                \o SubSeq(RestoredDocs(order[k].documents), 1, kept)
                           ELSE store[c]]
        /\ last' = [op |-> "restore_backup", status |-> 500, backup_id |-> backup_id,
                    failing |-> {at}]
        /\ UNCHANGED <<backups, backup_parts, utc>>

\* The body of both snapshot functions when a call after the loop raises:
\* insert_one of the summary, find of the retention, or delete_many of the
\* old summaries.  The outer except ends the operation (None, or 500).
SnapshotRaising(op, created_by, type, call) ==
    LET backup_id == BackupId("uuid", utc)
        parts == {PartData(backup_id, collections_to_backup[i], created_by) :
                     i \in DOMAIN collections_to_backup}
        all == backups \cup {BackupRecord(backup_id, created_by, type,
                                          collections_to_backup)}
        old == OldBackups(all)
    IN  /\ backups' = IF call = "insert_one" THEN backups ELSE all
        /\ backup_parts' = IF call = "delete_many"
                           THEN (backup_parts \cup parts)
                                    \ OldParts(backup_parts \cup parts, old)
                           ELSE backup_parts \cup parts
        /\ utc' = utc + 1
        /\ store' = store
        /\ last' = [op |-> op, status |-> 500, backup_id |-> backup_id,
                    failing |-> {call}]

RestoreRaises ==
    \E id \in RestoreIds, at \in {"horses", "expenses"},
       call \in {"delete_many", "insert_many"}, kept \in {0, 1} :
        BackupServed /\ restore_backup_raising(id, at, call, kept)

SnapshotRaises ==
    \E call \in {"insert_one", "find", "delete_many"} :
        \/ BackupServed /\ SnapshotRaising("perform_automatic_backup", "SYSTEM_AUTO",
                                           "automatic", call)
        \/ BackupServed /\ SnapshotRaising("create_backup", "admin", "manual", call)

NextFailure ==
    \/ ManualBackup
    \/ InsertDocument
    \/ RestoreRaises
    \/ SnapshotRaises

\* An installation whose summaries the retention step has kept to its bound.
InitFailure == InitBackup /\ Cardinality(backups) <= KEEP_BACKUPS

SpecFailure == InitFailure /\ [][NextFailure]_vars

(***************************************************************************)
(* Properties of the backups when a database call raises (SpecFailure).    *)
(***************************************************************************)
RestoreFailed == last'.op = "restore_backup" /\ last'.status = 500

\* The place of a collection in the order the chunks were written and are read.
PlaceOf(c) == CHOOSE i \in DOMAIN collections_to_backup : collections_to_backup[i] = c

\* The collection whose call raised in this step.
RaisedAt == CHOOSE c \in last'.failing : TRUE

\* held is the first documents of the chunk p, converted back.
HoldsPrefix(held, p) ==
    /\ Len(held) <= Len(p.documents)
    /\ \A i \in DOMAIN held :
          /\ held[i].copies = p.documents[i].copies
          /\ DocConvertedBack(p.documents[i].doc, held[i].doc)

\* C21: a restore whose call on collection k raises answers 500; every
\* collection with a chunk read before k holds the documents of its chunk,
\* every collection after k and every collection without a chunk is as it
\* was, k itself is as it was or holds some first documents of its chunk
\* (none of them, if the insert raised at once), and neither the restored
\* collections nor the backups are put back.
C21_RestoreStopsAtFailure ==
    [][RestoreFailed =>
          /\ backups' = backups
          /\ backup_parts' = backup_parts
          /\ \A c \in CollectionNames :
                (~\E p \in RestoredChunks : p.collection_name = c)
                    => (c = RaisedAt \/ store'[c] = store[c])
          /\ \A p \in RestoredChunks :
                LET c == p.collection_name
                IN  /\ PlaceOf(c) < PlaceOf(RaisedAt) =>
                          /\ Len(store'[c]) = Len(p.documents)
                          /\ HoldsPrefix(store'[c], p)
                    /\ PlaceOf(c) > PlaceOf(RaisedAt) => store'[c] = store[c]
                    /\ c = RaisedAt =>
                          \/ store'[c] = store[c]
                          \/ Len(store'[c]) < Len(p.documents) /\ HoldsPrefix(store'[c], p)]_vars

\* insert_many on the horses has just raised in a restore of the oldest
\* snapshot: the users before it are replaced (the snapshot has none), the
\* horses are gone, and the expense inserted after the snapshot is kept.
C21_Witness ==
    /\ last.op = "restore_backup"
    /\ last.status = 500
    /\ last.backup_id = BackupId("uuid", 1)
    /\ last.failing = {"horses"}
    /\ store["users"] = <<>>
    /\ store["horses"] = <<>>
    /\ store["expenses"] # <<>>

\* The chunks whose backup_id no summary carries.
OrphanChunks ==
    {p \in backup_parts : ~\E b \in backups : ActualBackupId(b) = p.backup_id}

\* C28: between snapshot operations every chunk of backup_parts has a
\* backup_id for which backups holds a summary, also after an operation that
\* ended in its outer except and after the retention step has pruned.
C28_NoOrphanChunks == OrphanChunks = {}

(***************************************************************************)
(* Snapshot operations in flight.  Both snapshot functions await every     *)
(* database call, so the scheduler's run, a manual run and the requests of *)
(* the users interleave call by call.  procs holds the operations: pc is   *)
(* the call an operation makes next, next the collection its loop has      *)
(* reached, old what its retention step listed beyond the seventh summary, *)
(* and instants every content the store had since the operation began.     *)
(* Two families of behaviours are explored: two operations in flight, and *)
(* one operation in flight that up to KEEP_BACKUPS manual snapshots, each  *)
(* run from its first line to its last, start after and overtake.          *)
(***************************************************************************)
\* backup_id = str(uuid.uuid4()); backup_time = datetime.utcnow()
BeginSnapshot ==
    \E kind \in {<<"perform_automatic_backup", "SYSTEM_AUTO", "automatic">>,
                  <<"create_backup", "admin", "manual">>} :
        /\ Len(procs) < MaxInFlight
        /\ requests = 0
        /\ procs' = Append(procs, [op |-> kind[1], pc |-> "collection",
                                   created_by |-> kind[2], type |-> kind[3],
                                   backup_id |-> BackupId("uuid", utc),
                                   backup_time |-> utc, next |-> 1, old |-> {},
                                   instants |-> <<store>>])
        /\ utc' = utc + 1
        /\ UNCHANGED <<apiVars, requests, last, store, backups, backup_parts>>

\* One pass of the loop: find({}).to_list(100000) on the next collection
\* and insert_one of its chunk.
CollectionStep ==
    \E p \in DOMAIN procs :
        LET h == procs[p]
            part_data == [PartData(h.backup_id, collections_to_backup[h.next], h.created_by)
                            EXCEPT !.created_at = h.backup_time]
        IN  /\ h.pc = "collection"
            /\ backup_parts' = backup_parts \cup {part_data}
            /\ procs' = [procs EXCEPT ![p].next = h.next + 1,
                                      ![p].pc = IF h.next = Len(collections_to_backup)
                                                THEN "summary" ELSE "collection"]
            /\ UNCHANGED <<apiVars, requests, last, store, backups, utc>>

\* The calls after the loop, one per step: insert_one of the summary, the
\* find of the retention step, and its delete_many calls.
RetentionStep ==
    \E p \in DOMAIN procs :
        LET h == procs[p]
            backup_record == [BackupRecord(h.backup_id, h.created_by, h.type,
                                           collections_to_backup)
                                EXCEPT !._id = h.backup_time,
                                       !.created_at = h.backup_time]
            old == OldBackups(backups)
            returned == [op |-> h.op, status |-> 200, backup_id |-> h.backup_id,
                         failing |-> {}]
        IN  /\ UNCHANGED <<apiVars, requests, store, utc>>
            /\ \/ /\ h.pc = "summary"
                  /\ backups' = backups \cup {backup_record}
                  /\ procs' = [procs EXCEPT ![p].pc = "list"]
                  /\ UNCHANGED <<backup_parts, last>>
               \/ /\ h.pc = "list"
                  /\ procs' = [procs EXCEPT ![p].old = old,
                                            ![p].pc = IF old = {} THEN "done" ELSE "prune"]
                  /\ last' = IF old = {} THEN returned ELSE last
                  /\ UNCHANGED <<backups, backup_parts>>
               \/ /\ h.pc = "prune"
                  /\ backup_parts' = backup_parts \ OldParts(backup_parts, h.old)
                  /\ backups' = {b \in backups : b._id \notin {o._id : o \in h.old}}
                  /\ procs' = [procs EXCEPT ![p].pc = "done"]
                  /\ last' = returned

\* POST /expenses of a user while snapshots are in flight: insert_one of the
\* expense and, at a later await, insert_one of its reminder.
ForegroundInsert ==
    \E q \in {<<"expenses", 1>>, <<"reminders", 2>>} :
        /\ store[q[1]] = <<>>
        /\ q[1] = "reminders" => store["expenses"] # <<>>
        /\ store' = [store EXCEPT ![q[1]] =
                        <<Run(<<At("_id", ObjectIdValue(200 + q[2])),
                                At("created_at", DatetimeValue(200 + q[2])),
                                At("horse_id", StrValue("hex", 2, OBJECT_ID_HEX_LEN))>>, 1)>>]
        /\ procs' = [p \in DOMAIN procs |->
                        IF procs[p].pc \in {"done", "list", "prune"} THEN procs[p]
                        ELSE [procs[p] EXCEPT !.instants = Append(@, store')]]
        /\ UNCHANGED <<apiVars, requests, last, backups, backup_parts, utc>>

\* POST /admin/backup served from its first line to its last while the one
\* operation in flight waits for a call.
WholeSnapshot ==
    /\ Len(procs) = 1
    /\ procs[1].pc # "done"
    /\ requests < KEEP_BACKUPS
    /\ requests' = requests + 1
    /\ create_backup({})
    /\ UNCHANGED <<apiVars, procs>>

NextOverlap ==
    \/ BeginSnapshot
    \/ CollectionStep
    \/ RetentionStep
    \/ ForegroundInsert
    \/ WholeSnapshot

SpecOverlap == InitBackup /\ [][NextOverlap]_vars

(***************************************************************************)
(* Properties of the snapshot operations in flight (SpecOverlap).          *)
(***************************************************************************)
ChunksUnder(backup_id) == {q \in backup_parts : q.backup_id = backup_id}

\* The operations whose loop has written a chunk for every collection, the
\* chunks still being there.
LoopDone ==
    {p \in DOMAIN procs :
        /\ procs[p].pc # "collection"
        /\ \A c \in CollectionNames :
              \E q \in ChunksUnder(procs[p].backup_id) : q.collection_name = c}

\* What a snapshot stores of a collection that holds docs.
Stored(docs) == SerializedDocs(to_list(docs, FIND_LIMIT))

\* C23: the chunks of a snapshot, taken together, are what the snapshot
\* stores of the store as it was at one single instant of the operation,
\* whatever requests ran meanwhile.
C23_PointInTime ==
    \A p \in LoopDone :
        \E i \in DOMAIN procs[p].instants :
            \A q \in ChunksUnder(procs[p].backup_id) :
                q.documents = Stored(procs[p].instants[i][q.collection_name])

\* A snapshot has returned whose loop read the expenses before a request
\* inserted an expense and the reminders after the request inserted the
\* reminder of that expense.
C23_Witness ==
    \E p \in LoopDone :
        /\ procs[p].pc = "done"
        /\ Len(procs[p].instants) = 3
        /\ \E q \in ChunksUnder(procs[p].backup_id) :
              q.collection_name = "expenses" /\ q.documents = <<>>
        /\ \E q \in ChunksUnder(procs[p].backup_id) :
              q.collection_name = "reminders" /\ q.documents # <<>>

\* The summary an operation has inserted, while backups holds it.
OwnSummary(p) == {b \in backups : b.backup_id = procs[p].backup_id}

\* One chunk for every collection a summary lists, and no other chunk.
ChunkPerCollection(b) ==
    /\ \A i \in DOMAIN b.collections :
          Cardinality({q \in ChunksUnder(ActualBackupId(b)) :
                          q.collection_name = b.collections[i]}) = 1
    /\ \A q \in ChunksUnder(ActualBackupId(b)) :
          \E i \in DOMAIN b.collections : q.collection_name = b.collections[i]

BothReturned ==
    Len(procs) = MaxInFlight /\ \A p \in DOMAIN procs : procs[p].pc = "done"

\* Operations in flight have distinct backup_ids; while the summary of an
\* operation is retained, the chunks under its backup_id are the ones that
\* operation wrote, one for every collection the summary lists; and once
\* both have returned every summary has one chunk per listed collection.
OverlapChunksKept ==
    /\ \A p \in DOMAIN procs, r \in DOMAIN procs :
          p # r => procs[p].backup_id # procs[r].backup_id
    /\ \A p \in DOMAIN procs :
          \A b \in OwnSummary(p) :
              /\ ChunkPerCollection(b)
              /\ \A q \in ChunksUnder(procs[p].backup_id) :
                    /\ q.created_by = procs[p].created_by
                    /\ q.created_at = procs[p].backup_time
    /\ BothReturned => \A b \in backups : ChunkPerCollection(b)

\* C24: two snapshot operations that interleave have distinct backup_ids;
\* while the summary of an operation is retained, the chunks under its
\* backup_id are the ones that operation wrote, one for every collection
\* the summary lists; and once both operations have returned, backups
\* holds at most 7 summaries, each with one chunk per listed collection.
C24_OverlapTolerated ==
    /\ OverlapChunksKept
    /\ BothReturned => Cardinality(backups) <= KEEP_BACKUPS

\* Two operations on a store of more summaries than the retention step
\* lists have returned, each after pruning, and more than 7 summaries are left.
C24_Witness ==
    /\ BothReturned
    /\ \A p \in DOMAIN procs : procs[p].old # {} /\ OwnSummary(p) # {}
    /\ Cardinality(backups) > KEEP_BACKUPS

\* The summaries that stay when all but the newest KEEP_BACKUPS go.
Newest(all) == {b \in all : Cardinality(NewerThan(b, all)) < KEEP_BACKUPS}

\* The operations that return in this step.
Returning == {p \in DOMAIN procs : procs[p].pc # "done" /\ procs'[p].pc = "done"}

\* C27: when a snapshot operation returns, the summaries left are the (up
\* to) 7 with the latest created_at, and the summary the operation has just
\* written is one of them, also when operations that began later returned
\* before it.
C27_NewestKept ==
    [][\A p \in Returning :
          /\ backups' = Newest(backups)
          /\ \E b \in backups' : b.backup_id = procs[p].backup_id]_vars

\* An operation has returned 200 and its retention step, which listed its
\* own summary as the eighth, has deleted the summary and the chunks.
C27_Witness ==
    \E p \in DOMAIN procs :
        /\ procs[p].pc = "done"
        /\ last.op = procs[p].op /\ last.status = 200
        /\ last.backup_id = procs[p].backup_id
        /\ \E o \in procs[p].old : o.backup_id = procs[p].backup_id
        /\ OwnSummary(p) = {}
        /\ ChunksUnder(procs[p].backup_id) = {}

====
